---- MODULE Spec2Model ----
(***************************************************************************)
(* Peer-to-peer session synchronisation of the ambulance chase game.       *)
(*                                                                         *)
(* SpecNet models one GameNetwork object (src/src/game/net.ts) together    *)
(* with the events PeerJS and the browser can deliver to it.  Time is      *)
(* counted in seconds (the source counts milliseconds): the heartbeat      *)
(* period is 3 s, the pong timeout 20 s, the rendezvous timeout 15 s.      *)
(* Instead of performance.now() and the absolute times the object stores,  *)
(* the model keeps the differences the code computes from them.            *)
(***************************************************************************)
EXTENDS Integers, Sequences, FiniteSets, TLC

\* ---- bounds of the model ----
MaxAge == 26
MaxConns == 2
\* consecutive room-code collisions createRoom is followed through
MaxCollisions == 2
\* patients in a snapshot
MaxUnits == 2
MaxPendingRetries == 1

\* ---- constants of net.ts ----
PingPeriod == 3
PongTimeout == 20
ConnectTimeout == 15
BufferLimit == 128 * 1024

ConnectionStates ==
    {"idle", "offering", "answering", "connecting", "connected", "disconnected"}

NetMessageTypes ==
    {"keys", "snapshot", "fullSync", "start", "ping", "pong", "modeSelect",
     "rematch", "chat", "briefing", "upgrade", "upgradeChoice", "ready", "syncAck"}

\* kinds the application hands to sendReliable / sendKeys / sendSnapshot
AppTypes == NetMessageTypes \ {"ping", "pong"}

\* bufferedAmount values the underlying RTCDataChannel can report
BufferedValues == {0, BufferLimit, BufferLimit + 1}

ConnIds == 1..MaxConns

VARIABLES
    state,             \* GameNetwork.state
    role,              \* "none" | "host" | "guest": which of createRoom / joinRoom ran
    peer,              \* this.peer: "null" | "created" | "open" | "destroyed"
    dataConn,          \* this.dataConn: 0 (null) or a connection id
    conns,             \* connection id -> "unused" | "pending" | "open" | "closed"
    pingInterval,      \* TRUE iff the heartbeat setInterval is running
    tillPing,          \* seconds until the heartbeat interval fires next
    sincePong,         \* performance.now() - this.lastPongReceived
    connectTimer,      \* the rendezvous setTimeout is pending
    tillConnect,       \* seconds until the rendezvous setTimeout fires
    destroyed,         \* destroy() has run; the application dropped the object
    sendRetry,         \* kinds waiting in sendReliable's 200 ms retry timer
    lastSend,          \* what the most recent sendReliable call did
    hbTimeouts,        \* heartbeat timeouts raised since the last startPing
    lastEvent,         \* what the callback that ran in the step just taken did
    lastError,         \* GameNetwork.lastError
    promise,           \* the promise createRoom / joinRoom returned
    roomCode,          \* createRoom: the number of the code being registered
    roomExists         \* joinRoom: a host has registered the code asked for

netVars ==
    <<state, role, peer, dataConn, conns, pingInterval, tillPing, sincePong,
      connectTimer, tillConnect, destroyed, sendRetry, lastSend, hbTimeouts,
      lastEvent, lastError, promise, roomCode, roomExists>>

\* ---- bounds of the session model ----
MaxRounds == 2
MaxSim == 3
NumMissions == 2

\* ---- constants of App (audio.ts), in milliseconds ----
StartDelay == 150
RetryDelays == <<500, 1200, 2500>>
RoundEndDelay == 3000

Rounds == 1..MaxRounds

VARIABLES
    screen,            \* stateRef.current.screen
    mp,                \* stateRef.current.mp (on = FALSE: undefined)
    networkRef,        \* networkRef.current is a GameNetwork
    connState,         \* state of that GameNetwork
    link,              \* its dataConn: "open" | "closed" (not open, or null)
    netRetry,          \* messages waiting in sendReliable's 200 ms retry timer
    missionIndex,      \* stateRef.current.missionIndex
    round,             \* rounds the host started through startMultiplayerGame
    startTimer,        \* the 150 ms 'start' timer is pending
    retryTimers,       \* indices of the pending fullSync retry timers
    syncAcked,         \* round -> the syncAcked flag of that round's closure
    ackSeen,           \* round -> a syncAck was handled since that round started
    onMessage,         \* rounds whose wrapper is installed on net.onMessage, outermost first
    fullSyncSends,     \* round -> sendFullSync calls that found the channel open
    keptOpen,          \* round -> the channel was open for the whole handshake
    simTicks,          \* updateGame calls in the current round
    lastStep           \* what the step just taken did: the user input and the message
                       \* it handled, the sendReliable calls it made

sessVars ==
    <<screen, mp, networkRef, connState, link, netRetry, missionIndex, round,
      startTimer, retryTimers, syncAcked, ackSeen, onMessage, fullSyncSends, keptOpen,
      simTicks, lastStep>>

\* ---- bound of the two-peer model ----
MaxInFlight == 2

VARIABLES
    guest,             \* the guest's App: screen, missionIndex, mp.hostReady, mp.guestReady,
                       \* and the round whose FullSyncPayload it applied last
    hostMp,            \* the host's mp.hostReady and mp.guestReady
    wire               \* the messages in flight to the guest and to the host, oldest first

phaseVars == <<guest, hostMp, wire>>

\* ---- the snapshot codec of netSync.ts ----
VARIABLES
    snapshot,          \* the StateSnapshot handed to serializeSnapshot
    encoded,           \* <<>> or the one string serializeSnapshot returned
    decoded            \* <<>> or the one StateSnapshot deserializeSnapshot returned

codecVars == <<snapshot, encoded, decoded>>

\* ---- the snapshot interpolation of netSync.ts ----
VARIABLES
    prev,              \* the older StateSnapshot handed to interpolateSnapshots
    curr,              \* the newer StateSnapshot handed to interpolateSnapshots
    interpT,           \* the argument t, in halves
    interpolated       \* <<>> or the one StateSnapshot interpolateSnapshots returned

interpVars == <<prev, curr, interpT, interpolated>>

\* ---- the room codes of net.ts ----
VARIABLES
    randoms,           \* the values Math.floor(Math.random() * ROOM_CHARS.length) will return
    generated,         \* <<>> or the one code generateRoomCode returned
    typed,             \* the text the guest hands to joinRoom
    hostPeerId,        \* <<>> or the identifier createRoom registers
    guestPeerId        \* <<>> or the identifier joinRoom connects to

roomVars == <<randoms, generated, typed, hostPeerId, guestPeerId>>

\* ---- the sequence numbers of net.ts ----
VARIABLES
    seq,               \* the private counter this.seq of one GameNetwork
    sent               \* the messages this peer handed to the channel, oldest first

seqVars == <<seq, sent>>

\* ---- the session state and the message handler of audio.ts ----
VARIABLES
    stateRef,          \* stateRef.current of one App in a multiplayer session
    received,          \* the message net.onMessage handled in the last step
    sentNow,           \* the messages the last step handed to sendReliable, in order
    remote             \* the round the other peer started last and the number of
                       \* its last snapshot

appVars == <<stateRef, received, sentNow, remote>>

\* the variables of the pure functions and of the sender's counter
pureVars == <<codecVars, interpVars, roomVars, seqVars, appVars>>

vars == <<netVars, sessVars, phaseVars, pureVars>>

NoReady == [hostReady |-> FALSE, guestReady |-> FALSE]

\* no snapshot is being encoded
CodecIdle == snapshot = <<>> /\ encoded = <<>> /\ decoded = <<>>

\* no snapshots are being interpolated
InterpIdle == prev = <<>> /\ curr = <<>> /\ interpT = 0 /\ interpolated = <<>>

\* no room code is being generated or resolved
RoomIdle ==
    /\ randoms = <<>> /\ generated = <<>> /\ typed = <<>>
    /\ hostPeerId = <<>> /\ guestPeerId = <<>>

\* nothing has been sent
SeqIdle == seq = 0 /\ sent = <<>>

\* no handler is under study
AppIdle == stateRef = <<>> /\ received = <<>> /\ sentNow = <<>> /\ remote = <<>>

PureIdle == CodecIdle /\ InterpIdle /\ RoomIdle /\ SeqIdle /\ AppIdle

\* the two-peer model is not running
PhaseIdle ==
    /\ guest = [screen |-> "menu", missionIndex |-> 0, mp |-> NoReady, world |-> 0]
    /\ hostMp = NoReady
    /\ wire = [toGuest |-> <<>>, toHost |-> <<>>]

NoMp ==
    [on |-> FALSE, netRole |-> "none", connected |-> FALSE, disconnected |-> FALSE,
     prevSnapshot |-> 0, currSnapshot |-> 0]

Msg(type) == [type |-> type, kind |-> "none", snap |-> 0, ok |-> TRUE]

NoMsg == Msg("none")

NoStep == [input |-> "none", handled |-> NoMsg, out |-> <<>>]

\* the application before any multiplayer session exists
SessionIdle ==
    /\ screen = "menu"
    /\ mp = NoMp
    /\ networkRef = FALSE
    /\ connState = "idle"
    /\ link = "closed"
    /\ netRetry = {}
    /\ missionIndex = 0
    /\ round = 0
    /\ startTimer = FALSE
    /\ retryTimers = {}
    /\ syncAcked = [r \in Rounds |-> FALSE]
    /\ ackSeen = [r \in Rounds |-> FALSE]
    /\ onMessage = <<>>
    /\ fullSyncSends = [r \in Rounds |-> 0]
    /\ keptOpen = [r \in Rounds |-> FALSE]
    /\ simTicks = 0
    /\ lastStep = NoStep

\* the promise of createRoom / joinRoom: status "none" (not made), "pending",
\* resolved with a room code (0 for joinRoom's void), rejected with an error
Resolved(code) == [status |-> "resolved", code |-> code, error |-> "none"]

Rejected(error) == [status |-> "rejected", code |-> 0, error |-> error]

\* resolve / reject of a promise that is settled already do nothing
Settle(outcome) == promise' = IF promise.status = "pending" THEN outcome ELSE promise

NoSend ==
    [type |-> "none", open |-> FALSE, buffered |-> 0, handed |-> FALSE,
     retry |-> FALSE, threw |-> FALSE]

NetIdle ==
    /\ state = "idle"
    /\ role = "none"
    /\ peer = "null"
    /\ dataConn = 0
    /\ conns = [c \in ConnIds |-> "unused"]
    /\ pingInterval = FALSE
    /\ tillPing = 0
    /\ sincePong = 0
    /\ connectTimer = FALSE
    /\ tillConnect = 0
    /\ destroyed = FALSE
    /\ sendRetry = {}
    /\ lastSend = NoSend
    /\ hbTimeouts = 0
    /\ lastEvent = "none"
    /\ lastError = "none"
    /\ promise = [status |-> "none", code |-> 0, error |-> "none"]
    /\ roomCode = 0
    /\ roomExists = FALSE

InitNet == NetIdle /\ SessionIdle /\ PhaseIdle /\ PureIdle

\* ---- GameNetwork.setState ----
SetStateTo(s) == state' = s

\* this.dataConn?.open
DataConnOpen == dataConn # 0 /\ conns[dataConn] = "open"

\* ---- GameNetwork.sendReliable: the backpressure policy ----
IsCritical(type) == type \notin {"snapshot", "keys", "ping", "pong"}

\* mutant: the buffer check applied to every kind
DroppedEveryKind(type, buffered) == buffered > BufferLimit

Dropped(type, buffered) == ~IsCritical(type) /\ buffered > BufferLimit

\* the retry sendReliable schedules when dataConn.send throws
\* mutant: a retry is scheduled whatever the kind
RetryAfterThrowAlways(type) == sendRetry \cup {type}

RetryAfterThrow(type) == IF IsCritical(type) THEN sendRetry \cup {type} ELSE sendRetry

\* One call of sendReliable with the channel reporting `buffered` and
\* dataConn.send throwing iff `throws`.
SendReliable(type, buffered, throws) ==
    IF ~DataConnOpen
    THEN /\ lastSend' = [type |-> type, open |-> FALSE, buffered |-> buffered,
                         handed |-> FALSE, retry |-> FALSE, threw |-> FALSE]
         /\ UNCHANGED sendRetry
    ELSE IF Dropped(type, buffered)
    THEN /\ lastSend' = [type |-> type, open |-> TRUE, buffered |-> buffered,
                         handed |-> FALSE, retry |-> FALSE, threw |-> FALSE]
         /\ UNCHANGED sendRetry
    ELSE /\ lastSend' = [type |-> type, open |-> TRUE, buffered |-> buffered,
                         handed |-> TRUE, retry |-> FALSE, threw |-> throws]
         /\ sendRetry' = IF throws THEN RetryAfterThrow(type) ELSE sendRetry

\* ---- GameNetwork.stopPing / startPing ----
StopPing == pingInterval' = FALSE /\ UNCHANGED <<tillPing, sincePong, hbTimeouts>>

StartPing ==
    /\ pingInterval' = TRUE
    /\ sincePong' = 0
    /\ tillPing' = PingPeriod
    /\ hbTimeouts' = 0

StartConnectTimer == connectTimer' = TRUE /\ tillConnect' = ConnectTimeout

ClearConnectTimer == connectTimer' = FALSE /\ tillConnect' = 0

FreshConn(c) == conns[c] = "unused" /\ \A d \in ConnIds : d < c => conns[d] # "unused"

\* ---- GameNetwork.handleConnection (registration part) ----
HandleConnection(c) ==
    /\ dataConn' = c
    /\ conns' = [conns EXCEPT ![c] = "pending"]
    /\ SetStateTo("connecting")

\* ---- createRoom ----
CreateRoom ==
    /\ UNCHANGED sessVars
    /\ UNCHANGED phaseVars
    /\ UNCHANGED pureVars
    /\ lastEvent' = "none"
    /\ UNCHANGED <<lastError, roomExists>>
    /\ role = "none" /\ state = "idle" /\ ~destroyed
    /\ role' = "host"
    /\ roomCode' = 1
    /\ promise' = [status |-> "pending", code |-> 0, error |-> "none"]
    /\ SetStateTo("offering")
    /\ peer' = "created"
    /\ StartConnectTimer
    /\ UNCHANGED <<dataConn, conns, pingInterval, tillPing, sincePong, destroyed,
                   sendRetry, lastSend, hbTimeouts>>

\* resolve(roomCode) of the attempt whose peer opened; an earlier attempt's
\* promise resolves with it through createRoom().then(resolve)
\* mutant: the caller gets the code of the attempt before it
RegisteredCodeStale == IF roomCode > 1 THEN roomCode - 1 ELSE roomCode

RegisteredCode == roomCode

\* peer.on('open') of createRoom
HostPeerOpen ==
    /\ UNCHANGED sessVars
    /\ UNCHANGED phaseVars
    /\ UNCHANGED pureVars
    /\ lastEvent' = "none"
    /\ UNCHANGED <<lastError, roomCode, roomExists>>
    /\ role = "host" /\ peer = "created"
    /\ peer' = "open"
    /\ Settle(Resolved(RegisteredCode))
    /\ ClearConnectTimer
    /\ UNCHANGED <<state, role, dataConn, conns, pingInterval, tillPing, sincePong,
                   destroyed, sendRetry, lastSend, hbTimeouts>>

\* peer.on('error') of createRoom, err.type = 'unavailable-id': the registration
\* failed, createRoom runs again with a new code
HostPeerErrorUnavailableId ==
    /\ UNCHANGED sessVars
    /\ UNCHANGED phaseVars
    /\ UNCHANGED pureVars
    /\ lastEvent' = "collision"
    /\ UNCHANGED <<lastError, promise, roomExists>>
    /\ role = "host" /\ peer = "created" /\ state = "offering"
    /\ roomCode <= MaxCollisions
    /\ roomCode' = roomCode + 1
    /\ SetStateTo("offering")
    /\ peer' = "created"
    /\ StartConnectTimer
    /\ UNCHANGED <<role, dataConn, conns, pingInterval, tillPing, sincePong,
                   destroyed, sendRetry, lastSend, hbTimeouts>>

\* peer.on('error') of createRoom, any other error
HostPeerError ==
    /\ UNCHANGED sessVars
    /\ UNCHANGED phaseVars
    /\ UNCHANGED pureVars
    /\ lastEvent' = "none"
    /\ UNCHANGED <<roomCode, roomExists>>
    /\ role = "host" /\ peer \in {"created", "open"}
    /\ lastError' = "peerError"
    /\ Settle(Rejected("peerError"))
    /\ ClearConnectTimer
    /\ SetStateTo("disconnected")
    /\ UNCHANGED <<role, peer, dataConn, conns, pingInterval, tillPing, sincePong,
                   destroyed, sendRetry, lastSend, hbTimeouts>>

\* this.peer?.destroy(): the peer and every connection of it are closed
PeerDestroyed == IF peer = "null" THEN "null" ELSE "destroyed"

ConnsClosed ==
    [c \in ConnIds |-> IF conns[c] \in {"pending", "open"} THEN "closed" ELSE conns[c]]

\* reject(new Error(...)) of the timeout callbacks: 'Timeout' in createRoom,
\* the room-not-found message in joinRoom
\* mutant: joinRoom's timeout rejects as createRoom's does
TimeoutErrorSame == "Timeout"

TimeoutError == IF role = "host" THEN "Timeout" ELSE "notFound"

\* the setTimeout callback of createRoom / joinRoom, on the GameNetwork
ConnectTimeoutCall ==
    /\ lastEvent' = "none"
    /\ UNCHANGED <<roomCode, roomExists>>
    /\ connectTimer /\ tillConnect = 0
    /\ lastError' = IF role = "host" THEN "createTimeout" ELSE "joinTimeout"
    /\ Settle(Rejected(TimeoutError))
    /\ ClearConnectTimer
    /\ peer' = PeerDestroyed
    /\ conns' = IF peer = "null" THEN conns ELSE ConnsClosed
    /\ SetStateTo("disconnected")
    /\ UNCHANGED <<role, dataConn, pingInterval, tillPing, sincePong, destroyed,
                   sendRetry, lastSend, hbTimeouts>>

\* the setTimeout callback of createRoom / joinRoom
ConnectTimeoutFires ==
    /\ UNCHANGED sessVars
    /\ UNCHANGED phaseVars
    /\ UNCHANGED pureVars
    /\ ConnectTimeoutCall

\* peer.on('connection') of createRoom: an incoming connection
HostPeerConnection(c) ==
    /\ UNCHANGED sessVars
    /\ UNCHANGED phaseVars
    /\ UNCHANGED pureVars
    /\ lastEvent' = "none"
    /\ UNCHANGED <<lastError, promise, roomCode, roomExists>>
    /\ role = "host" /\ peer = "open" /\ FreshConn(c)
    /\ HandleConnection(c)
    /\ UNCHANGED <<role, peer, pingInterval, tillPing, sincePong, connectTimer,
                   tillConnect, destroyed, sendRetry, lastSend, hbTimeouts>>

\* peer.on('disconnected') of createRoom: the signaling server is needed only
\* until the DataConnection is open
\* mutant: the signaling connection is restored whatever the DataConnection does
SignalingNeededAlways == TRUE

SignalingNeeded == ~DataConnOpen

\* peer.on('disconnected') of createRoom: the peer lost the signaling server
HostPeerDisconnected ==
    /\ UNCHANGED sessVars
    /\ UNCHANGED phaseVars
    /\ UNCHANGED pureVars
    /\ UNCHANGED <<lastError, promise, roomCode, roomExists>>
    /\ role = "host" /\ peer \in {"created", "open"}
    /\ lastEvent' = IF SignalingNeeded THEN "reconnect" ELSE "ignored"
    /\ UNCHANGED <<state, role, peer, dataConn, conns, pingInterval, tillPing,
                   sincePong, connectTimer, tillConnect, destroyed, sendRetry, lastSend,
                   hbTimeouts>>

\* ---- joinRoom ----
JoinRoom(exists) ==
    /\ UNCHANGED sessVars
    /\ UNCHANGED phaseVars
    /\ UNCHANGED pureVars
    /\ lastEvent' = "none"
    /\ UNCHANGED <<lastError, roomCode>>
    /\ roomExists' = exists
    /\ promise' = [status |-> "pending", code |-> 0, error |-> "none"]
    /\ role = "none" /\ state = "idle" /\ ~destroyed
    /\ role' = "guest"
    /\ SetStateTo("answering")
    /\ peer' = "created"
    /\ StartConnectTimer
    /\ UNCHANGED <<dataConn, conns, pingInterval, tillPing, sincePong, destroyed,
                   sendRetry, lastSend, hbTimeouts>>

\* peer.on('open') of joinRoom: connect to the host and hook the connection
GuestPeerOpen(c) ==
    /\ UNCHANGED sessVars
    /\ UNCHANGED phaseVars
    /\ UNCHANGED pureVars
    /\ lastEvent' = "none"
    /\ UNCHANGED <<lastError, promise, roomCode, roomExists>>
    /\ role = "guest" /\ peer = "created" /\ FreshConn(c)
    /\ peer' = "open"
    /\ HandleConnection(c)
    /\ UNCHANGED <<role, pingInterval, tillPing, sincePong, connectTimer, tillConnect,
                   destroyed, sendRetry, lastSend, hbTimeouts>>

\* peer.on('error') of joinRoom.  'peer-unavailable' answers the connect() to
\* a code nobody has registered; an error that comes before the peer's own
\* registration is fatal to the peer, which never opens after it.
GuestPeerError(type) ==
    /\ UNCHANGED sessVars
    /\ UNCHANGED phaseVars
    /\ UNCHANGED pureVars
    /\ lastEvent' = "none"
    /\ UNCHANGED <<roomCode, roomExists>>
    /\ role = "guest" /\ peer \in {"created", "open"}
    /\ type = "peer-unavailable" => peer = "open" /\ ~roomExists
    /\ lastError' = IF type = "peer-unavailable" THEN "notFound" ELSE "peerError"
    /\ Settle(Rejected(lastError'))
    /\ ClearConnectTimer
    /\ SetStateTo("disconnected")
    /\ peer' = IF peer = "created" THEN "destroyed" ELSE peer
    /\ UNCHANGED <<role, dataConn, conns, pingInterval, tillPing, sincePong, destroyed,
                   sendRetry, lastSend, hbTimeouts>>

\* ---- events of a DataConnection ----
\* conn.on('open'): joinRoom's handler first (guest), then handleConnection's
ConnOpen(c) ==
    /\ UNCHANGED sessVars
    /\ UNCHANGED phaseVars
    /\ UNCHANGED pureVars
    /\ lastEvent' = "none"
    /\ UNCHANGED <<lastError, roomCode, roomExists>>
    /\ conns[c] = "pending"
    /\ role = "guest" => roomExists
    /\ conns' = [conns EXCEPT ![c] = "open"]
    /\ IF role = "guest"
       THEN ClearConnectTimer /\ Settle(Resolved(0))
       ELSE UNCHANGED <<connectTimer, tillConnect, promise>>
    /\ SetStateTo("connected")
    /\ StartPing
    /\ UNCHANGED <<role, peer, dataConn, destroyed, sendRetry, lastSend>>

\* conn.on('close')
ConnClose(c) ==
    /\ UNCHANGED sessVars
    /\ UNCHANGED phaseVars
    /\ UNCHANGED pureVars
    /\ lastEvent' = "none"
    /\ UNCHANGED <<lastError, promise, roomCode, roomExists>>
    /\ conns[c] \in {"pending", "open"}
    /\ conns' = [conns EXCEPT ![c] = "closed"]
    /\ IF state = "connected"
       THEN SetStateTo("disconnected") /\ StopPing
       ELSE UNCHANGED <<state, pingInterval, tillPing, sincePong, hbTimeouts>>
    /\ UNCHANGED <<role, peer, dataConn, connectTimer, tillConnect, destroyed,
                   sendRetry, lastSend>>

\* conn.on('error'): joinRoom's handler first (guest), then handleConnection's
ConnError(c) ==
    /\ UNCHANGED sessVars
    /\ UNCHANGED phaseVars
    /\ UNCHANGED pureVars
    /\ lastEvent' = "none"
    /\ UNCHANGED <<roomCode, roomExists>>
    /\ conns[c] \in {"pending", "open"}
    /\ IF role = "guest"
       THEN /\ lastError' = "connError"
            /\ Settle(Rejected("connError"))
       ELSE UNCHANGED <<lastError, promise>>
    /\ IF role = "guest"
       THEN /\ ClearConnectTimer
            /\ SetStateTo("disconnected")
            /\ StopPing
       ELSE /\ UNCHANGED <<connectTimer, tillConnect>>
            /\ IF state # "connected"
               THEN SetStateTo("disconnected") /\ StopPing
               ELSE UNCHANGED <<state, pingInterval, tillPing, sincePong, hbTimeouts>>
    /\ UNCHANGED <<role, peer, dataConn, conns, destroyed, sendRetry, lastSend>>

\* conn.on('data') with a 'pong'
DataPong(c) ==
    /\ UNCHANGED sessVars
    /\ UNCHANGED phaseVars
    /\ UNCHANGED pureVars
    /\ lastEvent' = "none"
    /\ UNCHANGED <<lastError, promise, roomCode, roomExists>>
    /\ conns[c] = "open"
    /\ sincePong' = 0
    /\ UNCHANGED <<state, role, peer, dataConn, conns, pingInterval, tillPing,
                   connectTimer, tillConnect, destroyed, sendRetry, lastSend,
                   hbTimeouts>>

\* conn.on('data') with a 'ping': answered with a 'pong' through sendReliable
DataPing(c, buffered) ==
    /\ UNCHANGED sessVars
    /\ UNCHANGED phaseVars
    /\ UNCHANGED pureVars
    /\ lastEvent' = "none"
    /\ UNCHANGED <<lastError, promise, roomCode, roomExists>>
    /\ conns[c] = "open"
    /\ SendReliable("pong", buffered, FALSE)
    /\ UNCHANGED <<state, role, peer, dataConn, conns, pingInterval, tillPing,
                   sincePong, connectTimer, tillConnect, destroyed, hbTimeouts>>

\* ---- the heartbeat interval callback of startPing ----
\* mutant: the heartbeat gives up as soon as the window is reached
PongOverdueEarly == sincePong >= PongTimeout

PongOverdue == sincePong > PongTimeout

PingTick(buffered) ==
    /\ UNCHANGED sessVars
    /\ UNCHANGED phaseVars
    /\ UNCHANGED pureVars
    /\ lastEvent' = "none"
    /\ UNCHANGED <<lastError, promise, roomCode, roomExists>>
    /\ pingInterval /\ tillPing = 0
    /\ tillPing' = PingPeriod
    /\ IF PongOverdue
       THEN /\ SetStateTo("disconnected")
            /\ pingInterval' = FALSE
            /\ hbTimeouts' = hbTimeouts + 1
            /\ UNCHANGED <<sendRetry, lastSend>>
       ELSE IF dataConn # 0 /\ conns[dataConn] # "open"
       THEN /\ SetStateTo("disconnected")
            /\ pingInterval' = FALSE
            /\ UNCHANGED <<sendRetry, lastSend, hbTimeouts>>
       ELSE /\ SendReliable("ping", buffered, FALSE)
            /\ UNCHANGED <<state, pingInterval, hbTimeouts>>
    /\ UNCHANGED <<role, peer, dataConn, conns, sincePong, connectTimer, tillConnect,
                   destroyed>>

\* ---- a call of sendReliable: by the application (sendKeys / sendSnapshot
\* included) or, with a 'ping' or 'pong', by the heartbeat ----
SendApp(type, buffered, throws) ==
    /\ UNCHANGED sessVars
    /\ UNCHANGED phaseVars
    /\ UNCHANGED pureVars
    /\ lastEvent' = "none"
    /\ UNCHANGED <<lastError, promise, roomCode, roomExists>>
    /\ role # "none"
    /\ Cardinality(sendRetry) < MaxPendingRetries
    /\ SendReliable(type, buffered, throws)
    /\ UNCHANGED <<state, role, peer, dataConn, conns, pingInterval, tillPing,
                   sincePong, connectTimer, tillConnect, destroyed, hbTimeouts>>

\* the 200 ms retry timer of sendReliable: this.dataConn?.send(msg), once; a
\* throw of this second send is swallowed
SendRetryFires(type, throws) ==
    /\ UNCHANGED sessVars
    /\ UNCHANGED phaseVars
    /\ UNCHANGED pureVars
    /\ lastEvent' = "none"
    /\ UNCHANGED <<lastError, promise, roomCode, roomExists>>
    /\ type \in sendRetry
    /\ sendRetry' = sendRetry \ {type}
    /\ lastSend' = [type |-> type, open |-> DataConnOpen, buffered |-> 0,
                    handed |-> dataConn # 0, retry |-> TRUE,
                    threw |-> throws /\ dataConn # 0]
    /\ UNCHANGED <<state, role, peer, dataConn, conns, pingInterval, tillPing,
                   sincePong, connectTimer, tillConnect, destroyed, hbTimeouts>>

\* ---- GameNetwork.destroy ----
DestroyCall ==
    /\ lastEvent' = "none"
    /\ UNCHANGED <<lastError, promise, roomCode, roomExists>>
    /\ role # "none" /\ ~destroyed
    /\ destroyed' = TRUE
    /\ pingInterval' = FALSE
    /\ conns' = ConnsClosed
    /\ peer' = "null"
    /\ dataConn' = 0
    /\ SetStateTo("idle")
    /\ UNCHANGED <<role, tillPing, sincePong, connectTimer, tillConnect, sendRetry,
                   lastSend, hbTimeouts>>

Destroy ==
    /\ UNCHANGED sessVars
    /\ UNCHANGED phaseVars
    /\ UNCHANGED pureVars
    /\ DestroyCall

\* ---- time passes; a timer that is due fires before time moves on ----
Tick ==
    /\ UNCHANGED sessVars
    /\ UNCHANGED phaseVars
    /\ UNCHANGED pureVars
    /\ lastEvent' = "none"
    /\ UNCHANGED <<lastError, promise, roomCode, roomExists>>
    /\ pingInterval \/ connectTimer
    /\ pingInterval => tillPing > 0 /\ sincePong < MaxAge
    /\ connectTimer => tillConnect > 0
    /\ tillPing' = IF pingInterval THEN tillPing - 1 ELSE tillPing
    /\ sincePong' = IF pingInterval THEN sincePong + 1 ELSE sincePong
    /\ tillConnect' = IF connectTimer THEN tillConnect - 1 ELSE tillConnect
    /\ UNCHANGED <<state, role, peer, dataConn, conns, pingInterval, connectTimer,
                   destroyed, sendRetry, lastSend, hbTimeouts>>

\* ---- SpecNet: the life of one GameNetwork, heartbeat included ----
NextNet ==
    \/ CreateRoom
    \/ HostPeerOpen
    \/ HostPeerErrorUnavailableId
    \/ HostPeerError
    \/ ConnectTimeoutFires
    \/ \E c \in ConnIds : HostPeerConnection(c)
    \/ HostPeerDisconnected
    \/ \E exists \in BOOLEAN : JoinRoom(exists)
    \/ \E c \in ConnIds : GuestPeerOpen(c)
    \/ \E type \in {"peer-unavailable", "other"} : GuestPeerError(type)
    \/ \E c \in ConnIds : ConnOpen(c)
    \/ \E c \in ConnIds : ConnClose(c)
    \/ \E c \in ConnIds : ConnError(c)
    \/ \E c \in ConnIds : DataPong(c)
    \/ \E c \in ConnIds, b \in BufferedValues : DataPing(c, b)
    \/ \E b \in BufferedValues : PingTick(b)
    \/ Destroy
    \/ Tick

SpecNet == InitNet /\ [][NextNet]_vars

\* ---- SpecJoin: the life of a guest's GameNetwork.  Time passes and a
\* timeout whose delay has run out fires: the browser's timer queue ----
NextJoin ==
    \/ \E exists \in BOOLEAN : JoinRoom(exists)
    \/ \E c \in ConnIds : GuestPeerOpen(c)
    \/ \E type \in {"peer-unavailable", "other"} : GuestPeerError(type)
    \/ ConnectTimeoutFires
    \/ \E c \in ConnIds : ConnOpen(c)
    \/ \E c \in ConnIds : ConnClose(c)
    \/ \E c \in ConnIds : ConnError(c)
    \/ \E c \in ConnIds : DataPong(c)
    \/ \E c \in ConnIds, b \in BufferedValues : DataPing(c, b)
    \/ \E b \in BufferedValues : PingTick(b)
    \/ Destroy
    \/ Tick

SpecJoin ==
    /\ InitNet
    /\ [][NextJoin]_vars
    /\ WF_vars(Tick)
    /\ WF_vars(ConnectTimeoutFires)

\* ---- SpecSend: sendReliable on a channel that is open, closes or is destroyed ----
InitSend ==
    /\ SessionIdle
    /\ PhaseIdle
    /\ PureIdle
    /\ state = "connected"
    /\ role \in {"host", "guest"}
    /\ peer = "open"
    /\ dataConn = 1
    /\ conns = [c \in ConnIds |-> IF c = 1 THEN "open" ELSE "unused"]
    /\ pingInterval = TRUE
    /\ tillPing = PingPeriod
    /\ sincePong = 0
    /\ connectTimer = FALSE
    /\ tillConnect = 0
    /\ destroyed = FALSE
    /\ sendRetry = {}
    /\ lastSend = NoSend
    /\ hbTimeouts = 0
    /\ lastEvent = "none"
    /\ lastError = "none"
    /\ roomCode = IF role = "host" THEN 1 ELSE 0
    /\ promise = Resolved(roomCode)
    /\ roomExists = (role = "guest")

NextSend ==
    \/ \E t \in AppTypes, b \in BufferedValues, th \in BOOLEAN : SendApp(t, b, th)
    \/ \E t \in {"ping", "pong"}, b \in BufferedValues, th \in BOOLEAN : SendApp(t, b, th)
    \/ \E c \in ConnIds, b \in BufferedValues : DataPing(c, b)
    \/ \E t \in NetMessageTypes, th \in BOOLEAN : SendRetryFires(t, th)
    \/ \E c \in ConnIds : ConnClose(c)
    \/ Destroy

SpecSend == InitSend /\ [][NextSend]_vars

(***************************************************************************)
(* SpecSession: one App (src/src/game/audio.ts) over its GameNetwork, as   *)
(* host or as guest, from the moment the rendezvous has connected it.  The *)
(* other peer is the environment: any message may arrive at any time while *)
(* the channel is open.  Timers armed together fire in the order of their  *)
(* delays; a 200 ms retry of sendReliable fires at any later moment.       *)
(* Not modelled: the lobby's back button and mode buttons, the pause       *)
(* menu's buttons, the upgrade screen, game content.                       *)
(***************************************************************************)

\* createFullSyncPayload(newState)
WorldSync == [Msg("fullSync") EXCEPT !.kind = "world"]

\* { roundEnd: 'saved' | 'failed' } and { victory: true }
NoticeSync(kind) == [Msg("fullSync") EXCEPT !.kind = kind]

\* serializeSnapshot(createSnapshot(state)) at simulation step t
SnapshotMsg(t) == [Msg("snapshot") EXCEPT !.snap = t]

\* data the receiver cannot decode or apply; with type "none", a datum that
\* cannot be parsed into a message at all
Malformed(type) == [Msg(type) EXCEPT !.ok = FALSE]

\* what a host may send to the guest, and data the guest cannot parse, decode
\* or apply: its handling throws, in the handler's own try (snapshot, fullSync)
\* or into the try of the receive callback of net.ts (the others)
FromHost ==
    {WorldSync, Msg("start"), Msg("briefing"), Msg("upgrade"),
     Malformed("fullSync"), Malformed("snapshot"), Malformed("briefing"),
     Malformed("none")}
    \cup {NoticeSync(k) : k \in {"saved", "failed", "victory"}}
    \cup {SnapshotMsg(t) : t \in 1..MaxSim}

\* what a guest may send to the host
FromGuest == {Msg("syncAck"), Msg("keys")}

Messages == FromHost \cup FromGuest

Inbox == IF mp.netRole = "host" THEN FromGuest ELSE FromHost

\* the sendReliable calls of a handler so far, and the retries they scheduled
Calls == [netRetry |-> netRetry, out |-> <<>>]

\* what sendReliable does with a message
Fate(m, buffered, throws) ==
    IF link = "closed" THEN "closed"
    ELSE IF Dropped(m.type, buffered) THEN "dropped"
    ELSE IF throws THEN "thrown"
    ELSE "sent"

\* one sendReliable call
Send(c, m, buffered, throws) ==
    [netRetry |-> IF Fate(m, buffered, throws) = "thrown" /\ IsCritical(m.type)
                  THEN c.netRetry \cup {m}
                  ELSE c.netRetry,
     out |-> Append(c.out, [msg |-> m, fate |-> Fate(m, buffered, throws)])]

\* the step handled the user input `input` and the message `handled`, and made
\* the sendReliable calls of c
Did(input, handled, c) ==
    /\ lastStep' = [input |-> input, handled |-> handled, out |-> c.out]
    /\ netRetry' = c.netRetry

\* the bound on the pending send retries
MayThrow(throws) ==
    throws => link = "open" /\ Cardinality(netRetry) < MaxPendingRetries

\* a step that makes no sendReliable call reads neither input
NoCall(buffered, throws) == buffered = 0 /\ ~throws

IsHost == mp.on /\ mp.netRole = "host"

IsGuest == mp.on /\ mp.netRole = "guest"

\* net?.isConnected
IsConnected == networkRef /\ connState = "connected"

HandshakePending == startTimer \/ retryTimers # {}

\* setTimeout callbacks armed together run in the order of their delays
StartTimerDue == startTimer /\ \A j \in retryTimers : StartDelay <= RetryDelays[j]

RetryTimerDue(i) ==
    /\ i \in retryTimers
    /\ startTimer => RetryDelays[i] <= StartDelay
    /\ \A j \in retryTimers : RetryDelays[i] <= RetryDelays[j]

\* the channel closes: a handshake in progress no longer has it open
ChannelLost ==
    IF round > 0 /\ HandshakePending
    THEN [keptOpen EXCEPT ![round] = FALSE]
    ELSE keptOpen

\* ---- net.onStateChange ----
OnStateChange(m, s) ==
    IF ~m.on THEN m
    ELSE IF s = "connected" THEN [m EXCEPT !.connected = TRUE]
    ELSE IF s = "disconnected" THEN [m EXCEPT !.disconnected = TRUE]
    ELSE m

\* the GameNetwork leaves 'connected': the channel closed (closes), or the
\* heartbeat timed out while the channel still reports open
TransportLost(closes) ==
    /\ IsConnected
    /\ connState' = "disconnected"
    /\ link' = IF closes THEN "closed" ELSE link
    /\ mp' = OnStateChange(mp, "disconnected")
    /\ keptOpen' = IF closes THEN ChannelLost ELSE keptOpen
    /\ Did("none", NoMsg, Calls)
    /\ UNCHANGED <<screen, networkRef, missionIndex, round, startTimer, retryTimers,
                   syncAcked, ackSeen, onMessage, fullSyncSends, simTicks>>
    /\ UNCHANGED netVars
    /\ UNCHANGED phaseVars
    /\ UNCHANGED pureVars

\* the host's peer is still registered: a further incoming connection opens
Reconnected ==
    /\ networkRef /\ mp.netRole = "host"
    /\ connState = "disconnected" /\ link = "closed"
    /\ connState' = "connected"
    /\ link' = "open"
    /\ mp' = OnStateChange(mp, "connected")
    /\ Did("none", NoMsg, Calls)
    /\ UNCHANGED <<screen, networkRef, missionIndex, round, startTimer, retryTimers,
                   syncAcked, ackSeen, onMessage, fullSyncSends, keptOpen, simTicks>>
    /\ UNCHANGED netVars
    /\ UNCHANGED phaseVars
    /\ UNCHANGED pureVars

\* ---- the application returns to the menu ----
\* networkRef.current?.destroy(); networkRef.current = null;
\* stateRef.current = createInitialStateWithSave()
ReturnToMenu ==
    /\ networkRef' = FALSE
    /\ connState' = "idle"
    /\ link' = "closed"
    /\ screen' = "menu"
    /\ mp' = NoMp
    /\ missionIndex' = 0
    /\ keptOpen' = ChannelLost

\* handleAction, first branch: the session is marked disconnected
HandleActionDisconnected ==
    /\ mp.on /\ mp.disconnected
    /\ ReturnToMenu
    /\ Did("action", NoMsg, Calls)
    /\ UNCHANGED <<round, startTimer, retryTimers, syncAcked, ackSeen, onMessage,
                   fullSyncSends, simTicks>>
    /\ UNCHANGED netVars
    /\ UNCHANGED phaseVars
    /\ UNCHANGED pureVars

\* handleAction, case 'lobby': the host's START button
HandleActionLobbyStart(buffered, throws) ==
    /\ IsHost /\ ~mp.disconnected
    /\ screen = "lobby"
    /\ MayThrow(throws)
    /\ screen' = "briefing"
    /\ Did("action", NoMsg, Send(Calls, Msg("briefing"), buffered, throws))
    /\ UNCHANGED <<mp, networkRef, connState, link, missionIndex, round, startTimer,
                   retryTimers, syncAcked, ackSeen, onMessage, fullSyncSends, keptOpen,
                   simTicks>>
    /\ UNCHANGED netVars
    /\ UNCHANGED phaseVars
    /\ UNCHANGED pureVars

\* ---- startMultiplayerGame, reached from handleAction case 'briefing' ----
\* mutant: one retry timer fewer is armed
RetryTimersShort == DOMAIN RetryDelays \ {1}

RetryTimersArmed == DOMAIN RetryDelays

StartMultiplayerGame(buffered, throws) ==
    /\ IsHost /\ ~mp.disconnected
    /\ screen = "briefing"
    /\ IsConnected
    /\ round < MaxRounds
    /\ ~HandshakePending
    /\ MayThrow(throws)
    /\ IF missionIndex >= NumMissions
       THEN \* startMission returned 'ending': back to the lobby
            /\ screen' = "lobby"
            /\ missionIndex' = 0
            /\ Did("action", NoMsg, Send(Calls, NoticeSync("victory"), buffered, throws))
            /\ UNCHANGED <<round, startTimer, retryTimers, syncAcked, ackSeen, onMessage,
                           fullSyncSends, keptOpen, simTicks>>
       ELSE /\ screen' = "playing"
            /\ simTicks' = 0
            /\ round' = round + 1
            /\ syncAcked' = [syncAcked EXCEPT ![round + 1] = FALSE]
            /\ ackSeen' = [ackSeen EXCEPT ![round + 1] = FALSE]
            /\ Did("action", NoMsg, Send(Calls, WorldSync, buffered, throws))
            /\ fullSyncSends' = [fullSyncSends EXCEPT ![round + 1] =
                                    IF link = "open" THEN 1 ELSE 0]
            /\ keptOpen' = [keptOpen EXCEPT ![round + 1] = link = "open"]
            /\ retryTimers' = RetryTimersArmed
            /\ startTimer' = TRUE
            /\ onMessage' = <<round + 1>> \o onMessage
            /\ UNCHANGED missionIndex
    /\ UNCHANGED <<mp, networkRef, connState, link>>
    /\ UNCHANGED netVars
    /\ UNCHANGED phaseVars
    /\ UNCHANGED pureVars

\* the setTimeout callbacks of retryTimers: if (!syncAcked) sendFullSync()
RetryTimerFires(i, buffered, throws) ==
    /\ RetryTimerDue(i)
    /\ MayThrow(throws)
    /\ syncAcked[round] => NoCall(buffered, throws)
    /\ retryTimers' = retryTimers \ {i}
    /\ IF ~syncAcked[round]
       THEN /\ Did("none", NoMsg, Send(Calls, WorldSync, buffered, throws))
            /\ fullSyncSends' = [fullSyncSends EXCEPT ![round] =
                                    IF link = "open" THEN @ + 1 ELSE @]
       ELSE /\ Did("none", NoMsg, Calls)
            /\ UNCHANGED fullSyncSends
    /\ UNCHANGED <<screen, mp, networkRef, connState, link, missionIndex, round,
                   startTimer, syncAcked, ackSeen, onMessage, keptOpen, simTicks>>
    /\ UNCHANGED netVars
    /\ UNCHANGED phaseVars
    /\ UNCHANGED pureVars

\* the 150 ms setTimeout callback: sendReliable('start')
StartTimerFires(buffered, throws) ==
    /\ StartTimerDue
    /\ MayThrow(throws)
    /\ startTimer' = FALSE
    /\ Did("none", NoMsg, Send(Calls, Msg("start"), buffered, throws))
    /\ UNCHANGED <<screen, mp, networkRef, connState, link, missionIndex, round,
                   retryTimers, syncAcked, ackSeen, onMessage, fullSyncSends, keptOpen,
                   simTicks>>
    /\ UNCHANGED netVars
    /\ UNCHANGED phaseVars
    /\ UNCHANGED pureVars

\* the 200 ms retry timer of sendReliable: this.dataConn?.send(msg), once
NetRetryFires(m, throws) ==
    /\ m \in netRetry
    /\ netRetry' = netRetry \ {m}
    /\ lastStep' = [NoStep EXCEPT !.out =
                       <<[msg |-> m,
                          fate |-> IF link = "open" /\ ~throws THEN "resent" ELSE "lost"]>>]
    /\ UNCHANGED <<screen, mp, networkRef, connState, link, missionIndex, round,
                   startTimer, retryTimers, syncAcked, ackSeen, onMessage, fullSyncSends,
                   keptOpen, simTicks>>
    /\ UNCHANGED netVars
    /\ UNCHANGED phaseVars
    /\ UNCHANGED pureVars

\* ---- net.onMessage: the syncAck wrappers of startMultiplayerGame ----
\* mutant: no wrapper looks at the acknowledgement
WrappedNone == {}

\* the rounds whose wrapper runs on a message
Wrapped == {onMessage[i] : i \in DOMAIN onMessage}

\* retryTimers.forEach(t => clearTimeout(t)) of the wrappers that run
RetryTimersCleared == IF round \in Wrapped THEN {} ELSE retryTimers

\* syncAcked = true in the wrappers that run
SyncAckedSet == [r \in Rounds |-> syncAcked[r] \/ r \in Wrapped]

\* a call of the handler h (the rounds of its wrappers, outermost first): on a
\* syncAck each wrapper sets net.onMessage = origHandler and then calls
\* origHandler, on any message it calls origHandler; left is the handler
\* installed after the call and how often the handler of
\* setupNetworkCallbacks ran
RECURSIVE RunHandler(_, _, _)
RunHandler(h, isAck, installed) ==
    IF h = <<>>
    THEN [onMessage |-> installed, baseCalls |-> 1]
    ELSE LET r == RunHandler(Tail(h), isAck, IF isAck THEN Tail(h) ELSE installed)
         IN  [onMessage |-> r.onMessage, baseCalls |-> r.baseCalls]

\* ---- net.onMessage: the handler of setupNetworkCallbacks ----
\* mutant: the previous current snapshot is not kept
PrevSnapshotStale(m) == m.prevSnapshot

PrevSnapshotAfter(m) == m.currSnapshot

\* case 'snapshot'
OnSnapshot(m, msg) ==
    IF msg.ok
    THEN [m EXCEPT !.prevSnapshot = PrevSnapshotAfter(m), !.currSnapshot = msg.snap]
    ELSE m

\* mutant: a notice is acknowledged like a world payload
AckedKindsAll == {"world", "saved", "failed", "victory"}

\* case 'fullSync': the payloads answered with a syncAck
AckedKinds == {"world"}

\* case 'fullSync', 'start', 'briefing', 'upgrade': the screen the guest shows next
\* mutant: the screen is switched before the message's data is read
ScreenAfterUnchecked(s, msg) ==
    IF msg.type = "fullSync"
    THEN IF msg.kind \in {"saved", "failed"} THEN msg.kind
         ELSE IF msg.kind = "victory" THEN "lobby"
         ELSE "playing"
    ELSE IF msg.type = "start" THEN "playing"
    ELSE IF msg.type = "briefing" THEN "briefing"
    ELSE IF msg.type = "upgrade" THEN "upgrade"
    ELSE s

ScreenAfter(s, msg) ==
    IF ~msg.ok THEN s
    ELSE IF msg.type = "fullSync"
    THEN IF msg.kind \in {"saved", "failed"} THEN msg.kind
         ELSE IF msg.kind = "victory" THEN "lobby"
         ELSE "playing"
    ELSE IF msg.type = "start" THEN "playing"
    ELSE IF msg.type = "briefing" THEN "briefing"
    ELSE IF msg.type = "upgrade" THEN "upgrade"
    ELSE s

\* conn.on('data') hands a message of the other peer to net.onMessage
Receives(msg, buffered, throws) ==
    /\ networkRef /\ link = "open"
    /\ msg \in Inbox
    /\ MayThrow(throws)
    /\ ~(IsGuest /\ msg.type = "fullSync" /\ msg.ok /\ msg.kind \in AckedKinds)
          => NoCall(buffered, throws)
    /\ IF msg.type = "syncAck"
       THEN /\ syncAcked' = SyncAckedSet
            /\ retryTimers' = RetryTimersCleared
            /\ onMessage' = RunHandler(onMessage, TRUE, onMessage).onMessage
            /\ ackSeen' = [r \in Rounds |-> ackSeen[r] \/ r = round]
       ELSE UNCHANGED <<syncAcked, ackSeen, retryTimers, onMessage>>
    /\ screen' = IF IsGuest THEN ScreenAfter(screen, msg) ELSE screen
    /\ mp' = IF IsGuest /\ msg.type = "snapshot" THEN OnSnapshot(mp, msg) ELSE mp
    /\ IF IsGuest /\ msg.type = "fullSync" /\ msg.ok /\ msg.kind \in AckedKinds
       THEN Did("none", msg, Send(Calls, Msg("syncAck"), buffered, throws))
       ELSE Did("none", msg, Calls)
    /\ UNCHANGED <<networkRef, connState, link, missionIndex, round, startTimer,
                   fullSyncSends, keptOpen, simTicks>>
    /\ UNCHANGED netVars
    /\ UNCHANGED phaseVars
    /\ UNCHANGED pureVars

\* ---- gameLoop ----
\* the host's branch of a 'playing' frame: simulate, announce the round's end,
\* send a snapshot on every 6th frame (sixth)
GameLoopHost(outcome, sixth, buffered, throws) ==
    /\ screen = "playing" /\ IsHost
    /\ ~mp.disconnected
    /\ simTicks < MaxSim
    /\ outcome = "playing" => simTicks + 1 < MaxSim
    /\ MayThrow(throws)
    /\ ~(IsConnected /\ (outcome # "playing" \/ sixth)) => NoCall(buffered, throws)
    /\ simTicks' = simTicks + 1
    /\ screen' = outcome
    /\ Did("none", NoMsg,
           IF ~IsConnected THEN Calls
           ELSE IF outcome # "playing"
           THEN Send(Calls, NoticeSync(outcome), buffered, throws)
           ELSE IF sixth
           THEN Send(Calls, SnapshotMsg(simTicks + 1), buffered, throws)
           ELSE Calls)
    /\ UNCHANGED <<mp, networkRef, connState, link, missionIndex, round, startTimer,
                   retryTimers, syncAcked, ackSeen, onMessage, fullSyncSends, keptOpen>>
    /\ UNCHANGED netVars
    /\ UNCHANGED phaseVars
    /\ UNCHANGED pureVars

\* the guest's branch of a 'playing' frame, on a 3rd frame: send the keys
GameLoopGuest(buffered) ==
    /\ screen = "playing" /\ IsGuest
    /\ ~mp.disconnected
    /\ IsConnected
    /\ Did("none", NoMsg, Send(Calls, Msg("keys"), buffered, FALSE))
    /\ UNCHANGED <<screen, mp, networkRef, connState, link, missionIndex, round,
                   startTimer, retryTimers, syncAcked, ackSeen, onMessage, fullSyncSends,
                   keptOpen, simTicks>>
    /\ UNCHANGED netVars
    /\ UNCHANGED phaseVars
    /\ UNCHANGED pureVars

\* the host's automatic transition RoundEndDelay after the round ended; by then
\* every timer of the handshake and every 200 ms retry has fired
GameLoopRoundEnd(buffered, throws) ==
    /\ screen \in {"saved", "failed"} /\ IsHost
    /\ IsConnected
    /\ RoundEndDelay > RetryDelays[Len(RetryDelays)]
    /\ ~HandshakePending /\ netRetry = {}
    /\ MayThrow(throws)
    /\ IF screen = "saved"
       THEN IF missionIndex + 1 >= NumMissions
            THEN /\ screen' = "lobby"
                 /\ missionIndex' = 0
                 /\ Did("none", NoMsg,
                        Send(Calls, NoticeSync("victory"), buffered, throws))
            ELSE /\ screen' = "upgrade"
                 /\ missionIndex' = missionIndex + 1
                 /\ Did("none", NoMsg, Send(Calls, Msg("upgrade"), buffered, throws))
       ELSE /\ screen' = "briefing"
            /\ UNCHANGED missionIndex
            /\ Did("none", NoMsg, Send(Calls, Msg("briefing"), buffered, throws))
    /\ UNCHANGED <<mp, networkRef, connState, link, round, startTimer, retryTimers,
                   syncAcked, ackSeen, onMessage, fullSyncSends, keptOpen, simTicks>>
    /\ UNCHANGED netVars
    /\ UNCHANGED phaseVars
    /\ UNCHANGED pureVars

\* ---- handleKeyDown, case 'Escape' ----
KeyEscape ==
    /\ mp.on
    /\ mp.disconnected \/ screen \in {"playing", "paused"}
    /\ Did("escape", NoMsg, Calls)
    /\ IF mp.disconnected
       THEN ReturnToMenu
       ELSE /\ screen' = IF screen = "playing" THEN "paused" ELSE "playing"
            /\ UNCHANGED <<mp, networkRef, connState, link, missionIndex, keptOpen>>
    /\ UNCHANGED <<round, startTimer, retryTimers, syncAcked, ackSeen, onMessage,
                   fullSyncSends, simTicks>>
    /\ UNCHANGED netVars
    /\ UNCHANGED phaseVars
    /\ UNCHANGED pureVars

\* ---- handleTouchStart on the 'playing' screen: the pause button ----
TouchPause ==
    /\ mp.on /\ screen = "playing"
    /\ screen' = "paused"
    /\ Did("touch", NoMsg, Calls)
    /\ UNCHANGED <<mp, networkRef, connState, link, missionIndex, round, startTimer,
                   retryTimers, syncAcked, ackSeen, onMessage, fullSyncSends, keptOpen,
                   simTicks>>
    /\ UNCHANGED netVars
    /\ UNCHANGED phaseVars
    /\ UNCHANGED pureVars

InitSession ==
    /\ NetIdle
    /\ PhaseIdle
    /\ PureIdle
    /\ screen = "lobby"
    /\ \E r \in {"host", "guest"} :
          mp = [NoMp EXCEPT !.on = TRUE, !.netRole = r, !.connected = TRUE]
    /\ networkRef = TRUE
    /\ connState = "connected"
    /\ link = "open"
    /\ netRetry = {}
    /\ missionIndex = 0
    /\ round = 0
    /\ startTimer = FALSE
    /\ retryTimers = {}
    /\ syncAcked = [r \in Rounds |-> FALSE]
    /\ ackSeen = [r \in Rounds |-> FALSE]
    /\ onMessage = <<>>
    /\ fullSyncSends = [r \in Rounds |-> 0]
    /\ keptOpen = [r \in Rounds |-> FALSE]
    /\ simTicks = 0
    /\ lastStep = NoStep

NextSession ==
    \/ \E closes \in BOOLEAN : TransportLost(closes)
    \/ Reconnected
    \/ HandleActionDisconnected
    \/ \E b \in BufferedValues, th \in BOOLEAN : HandleActionLobbyStart(b, th)
    \/ \E b \in BufferedValues, th \in BOOLEAN : StartMultiplayerGame(b, th)
    \/ \E i \in DOMAIN RetryDelays, b \in BufferedValues, th \in BOOLEAN :
          RetryTimerFires(i, b, th)
    \/ \E b \in BufferedValues, th \in BOOLEAN : StartTimerFires(b, th)
    \/ \E m \in Messages, th \in BOOLEAN : NetRetryFires(m, th)
    \/ \E msg \in Messages, b \in BufferedValues, th \in BOOLEAN : Receives(msg, b, th)
    \/ \E o \in {"playing", "saved", "failed"}, sixth \in BOOLEAN,
          b \in BufferedValues, th \in BOOLEAN : GameLoopHost(o, sixth, b, th)
    \/ \E b \in BufferedValues : GameLoopGuest(b)
    \/ \E b \in BufferedValues, th \in BOOLEAN : GameLoopRoundEnd(b, th)
    \/ KeyEscape
    \/ TouchPause

SpecSession == InitSession /\ [][NextSession]_vars

(***************************************************************************)
(* The lobby of audio.ts with two GameNetwork objects: the first is the    *)
(* GameNetwork of the variables above, the second, which the application   *)
(* creates after it destroyed the first, is known by connState only.       *)
(* Not modelled: the room code on the screen, the code the guest types and *)
(* its error text, the mode buttons.                                       *)
(***************************************************************************)

\* what the lobby leaves alone
LobbyFrame ==
    /\ UNCHANGED <<link, netRetry, missionIndex, round, startTimer, retryTimers,
                   syncAcked, ackSeen, onMessage, fullSyncSends, keptOpen, simTicks,
                   lastStep>>
    /\ UNCHANGED phaseVars
    /\ UNCHANGED pureVars

\* handleAction, case 'multiplayerMenu': createMultiplayerState(r),
\* new GameNetwork(), setupNetworkCallbacks(net)
LobbyOpen(r) ==
    /\ screen = "menu" /\ ~networkRef
    /\ role = "none" \/ destroyed
    /\ screen' = "lobby"
    /\ mp' = [NoMp EXCEPT !.on = TRUE, !.netRole = r]
    /\ networkRef' = TRUE
    /\ UNCHANGED connState
    /\ UNCHANGED netVars
    /\ LobbyFrame

\* net.createRoom() of the first GameNetwork, after ensureIceServers
LobbyCreateRoom ==
    /\ screen = "lobby" /\ networkRef /\ mp.netRole = "host"
    /\ CreateRoom

\* networkRef.current.joinRoom(newCode) of the first GameNetwork
LobbyJoinRoom(exists) ==
    /\ screen = "lobby" /\ networkRef /\ mp.netRole = "guest"
    /\ JoinRoom(exists)

\* handleAction, case 'lobby', the back button: networkRef.current?.destroy(),
\* networkRef.current = null, stateRef.current = createInitialStateWithSave()
LobbyBack ==
    /\ screen = "lobby" /\ networkRef
    /\ role # "none" /\ ~destroyed
    /\ DestroyCall
    /\ screen' = "menu"
    /\ mp' = NoMp
    /\ networkRef' = FALSE
    /\ UNCHANGED connState
    /\ LobbyFrame

\* the rendezvous setTimeout of the first GameNetwork: setState('disconnected')
\* calls net.onStateChange, which reads stateRef.current
LobbyTimeout ==
    /\ ConnectTimeoutCall
    /\ mp' = IF state # "disconnected" THEN OnStateChange(mp, "disconnected") ELSE mp
    /\ UNCHANGED <<screen, networkRef, connState>>
    /\ LobbyFrame

\* the second GameNetwork connects: net.onStateChange('connected')
LobbyConnected ==
    /\ destroyed /\ networkRef /\ connState = "idle"
    /\ connState' = "connected"
    /\ mp' = OnStateChange(mp, "connected")
    /\ UNCHANGED <<screen, networkRef>>
    /\ UNCHANGED netVars
    /\ LobbyFrame

InitLobby == InitNet

NextLobby ==
    \/ \E r \in {"host", "guest"} : LobbyOpen(r)
    \/ LobbyCreateRoom
    \/ \E exists \in BOOLEAN : LobbyJoinRoom(exists)
    \/ HostPeerOpen
    \/ LobbyBack
    \/ LobbyTimeout
    \/ LobbyConnected
    \/ Tick

SpecLobby == InitLobby /\ [][NextLobby]_vars

(***************************************************************************)
(* SpecPhase: the host's App and the guest's App of one connected session, *)
(* with the messages in flight between them.  The channel is open, delivers*)
(* in order; the first send of a round's fullSync may throw and is then    *)
(* retried by sendReliable.  Not modelled: snapshots and keys, the         *)
(* pause menu's buttons, the lobby's back and mode buttons.                *)
(***************************************************************************)

\* a message with the fields the phase handlers read
\* (round: the round a world or a 'start' was sent in, which no handler reads)
PhaseMsg(type, kind, mi) ==
    [type |-> type, kind |-> kind, missionIndex |-> mi, round |-> 0]

\* sendFullSync and the 'start' of round r
WorldMsg(mi, r) == [PhaseMsg("fullSync", "world", mi) EXCEPT !.round = r]

StartMsg(r) == [PhaseMsg("start", "none", 0) EXCEPT !.round = r]

\* the syncAck the guest sends for the FullSyncPayload of round r
AckMsg(r) == [PhaseMsg("syncAck", "none", 0) EXCEPT !.round = r]

\* sendReliable on the host, on the guest
ToGuest(w, m) == [w EXCEPT !.toGuest = Append(@, m)]

ToHost(w, m) == [w EXCEPT !.toHost = Append(@, m)]

\* the bound on the messages in flight
CanSend(q, n) == Len(q) + n <= MaxInFlight

\* what the sends of the two-peer model leave alone
PhaseFrameSend ==
    /\ UNCHANGED <<mp, networkRef, connState, link, ackSeen, fullSyncSends,
                   keptOpen, simTicks, lastStep>>
    /\ UNCHANGED netVars
    /\ UNCHANGED pureVars

\* what the two-peer model leaves alone
PhaseFrame == PhaseFrameSend /\ UNCHANGED netRetry

\* ---- the host ----
\* handleAction, case 'lobby': START
PhaseLobbyStart ==
    /\ screen = "lobby"
    /\ CanSend(wire.toGuest, 1)
    /\ screen' = "briefing"
    /\ hostMp' = NoReady
    /\ wire' = ToGuest(wire, PhaseMsg("briefing", "none", missionIndex))
    /\ UNCHANGED <<missionIndex, round, startTimer, retryTimers, syncAcked, onMessage,
                   guest>>
    /\ PhaseFrame

\* handleAction, case 'briefing': startMultiplayerGame
\* throws: dataConn.send throws on the round's fullSync, and sendReliable arms
\* its 200 ms retry
PhaseStartGame(throws) ==
    /\ screen = "briefing"
    /\ round < MaxRounds
    /\ ~HandshakePending
    /\ netRetry = {}
    /\ CanSend(wire.toGuest, 1)
    /\ throws => missionIndex < NumMissions
    /\ IF missionIndex >= NumMissions
       THEN /\ screen' = "lobby"
            /\ missionIndex' = 0
            /\ wire' = ToGuest(wire, PhaseMsg("fullSync", "victory", 0))
            /\ UNCHANGED <<round, startTimer, retryTimers, syncAcked, onMessage, netRetry>>
       ELSE /\ screen' = "playing"
            /\ round' = round + 1
            /\ syncAcked' = [syncAcked EXCEPT ![round + 1] = FALSE]
            /\ wire' = IF throws THEN wire
                       ELSE ToGuest(wire, WorldMsg(missionIndex, round + 1))
            /\ netRetry' = IF throws THEN {WorldMsg(missionIndex, round + 1)} ELSE {}
            /\ retryTimers' = RetryTimersArmed
            /\ startTimer' = TRUE
            /\ onMessage' = <<round + 1>> \o onMessage
            /\ UNCHANGED missionIndex
    /\ UNCHANGED <<guest, hostMp>>
    /\ PhaseFrameSend

\* the 200 ms retry timer of sendReliable: it was armed before the 150 ms timer
\* of the same startMultiplayerGame call and runs after it
PhaseSendRetry ==
    /\ netRetry # {}
    /\ ~startTimer
    /\ CanSend(wire.toGuest, 1)
    /\ wire' = ToGuest(wire, CHOOSE m \in netRetry : TRUE)
    /\ netRetry' = {}
    /\ UNCHANGED <<screen, missionIndex, round, startTimer, retryTimers, syncAcked,
                   onMessage, guest, hostMp>>
    /\ PhaseFrameSend

\* the retry timers of startMultiplayerGame
PhaseRetryTimer(i) ==
    /\ RetryTimerDue(i)
    /\ netRetry = {}
    /\ retryTimers' = retryTimers \ {i}
    /\ IF ~syncAcked[round]
       THEN /\ CanSend(wire.toGuest, 1)
            /\ wire' = ToGuest(wire, WorldMsg(missionIndex, round))
       ELSE UNCHANGED wire
    /\ UNCHANGED <<screen, missionIndex, round, startTimer, syncAcked, onMessage, guest,
                   hostMp>>
    /\ PhaseFrame

\* the 150 ms timer of startMultiplayerGame
PhaseStartTimer ==
    /\ StartTimerDue
    /\ CanSend(wire.toGuest, 1)
    /\ startTimer' = FALSE
    /\ wire' = ToGuest(wire, StartMsg(round))
    /\ UNCHANGED <<screen, missionIndex, round, retryTimers, syncAcked, onMessage, guest,
                   hostMp>>
    /\ PhaseFrame

\* gameLoop on the host: updateGame ends the round
PhaseHostLoop(outcome) ==
    /\ screen = "playing"
    /\ CanSend(wire.toGuest, 1)
    /\ screen' = outcome
    /\ wire' = ToGuest(wire, PhaseMsg("fullSync", outcome, missionIndex))
    /\ UNCHANGED <<missionIndex, round, startTimer, retryTimers, syncAcked, onMessage,
                   guest, hostMp>>
    /\ PhaseFrame

\* mutant: the 'upgrade' message carries the mission that was just played
RoundEndNoticeStale(saved, mi) ==
    IF saved
    THEN IF mi + 1 >= NumMissions
         THEN PhaseMsg("fullSync", "victory", 0)
         ELSE PhaseMsg("upgrade", "none", mi)
    ELSE PhaseMsg("briefing", "none", mi)

\* gameLoop on the host: the message that tells the guest how the round ended
RoundEndNotice(saved, mi) ==
    IF saved
    THEN IF mi + 1 >= NumMissions
         THEN PhaseMsg("fullSync", "victory", 0)
         ELSE PhaseMsg("upgrade", "none", mi + 1)
    ELSE PhaseMsg("briefing", "none", mi)

\* gameLoop on the host: the transition RoundEndDelay after the round's end
PhaseRoundEnd ==
    /\ screen \in {"saved", "failed"}
    /\ RoundEndDelay > RetryDelays[Len(RetryDelays)]
    /\ ~HandshakePending
    /\ CanSend(wire.toGuest, 1)
    /\ wire' = ToGuest(wire, RoundEndNotice(screen = "saved", missionIndex))
    /\ IF screen = "saved"
       THEN IF missionIndex + 1 >= NumMissions
            THEN /\ screen' = "lobby"
                 /\ missionIndex' = 0
                 /\ UNCHANGED hostMp
            ELSE /\ screen' = "upgrade"
                 /\ missionIndex' = missionIndex + 1
                 /\ hostMp' = NoReady
       ELSE /\ screen' = "briefing"
            /\ UNCHANGED missionIndex
            /\ hostMp' = NoReady
    /\ UNCHANGED <<round, startTimer, retryTimers, syncAcked, onMessage, guest>>
    /\ PhaseFrame

\* mutant: one flag is enough
BothReadyEither(w, m) ==
    IF m.hostReady \/ m.guestReady
    THEN /\ screen' = "briefing"
         /\ hostMp' = NoReady
         /\ wire' = ToGuest(w, PhaseMsg("briefing", "none", missionIndex))
    ELSE /\ screen' = screen
         /\ hostMp' = m
         /\ wire' = w

\* the host is ready and knows the guest is: back to the briefing
BothReady(w, m) ==
    IF m.hostReady /\ m.guestReady
    THEN /\ screen' = "briefing"
         /\ hostMp' = NoReady
         /\ wire' = ToGuest(w, PhaseMsg("briefing", "none", missionIndex))
    ELSE /\ screen' = screen
         /\ hostMp' = m
         /\ wire' = w

\* handleAction, case 'upgrade', on the host: the ready button
PhaseHostReady ==
    /\ screen = "upgrade"
    /\ CanSend(wire.toGuest, 2)
    /\ BothReady(ToGuest(wire, PhaseMsg("ready", "none", 0)),
                 [hostMp EXCEPT !.hostReady = TRUE])
    /\ UNCHANGED <<missionIndex, round, startTimer, retryTimers, syncAcked, onMessage,
                   guest>>
    /\ PhaseFrame

\* handleKeyDown, case 'Escape', on the host
PhaseHostEscape ==
    /\ screen \in {"playing", "paused"}
    /\ screen' = IF screen = "playing" THEN "paused" ELSE "playing"
    /\ UNCHANGED <<missionIndex, round, startTimer, retryTimers, syncAcked, onMessage,
                   guest, hostMp, wire>>
    /\ PhaseFrame

\* net.onMessage on the host; affordable: the guest can pay the upgrade it chose
PhaseHostReceives(affordable) ==
    /\ wire.toHost # <<>>
    /\ CanSend(wire.toGuest, 1)
    /\ LET m == Head(wire.toHost)
           w == [wire EXCEPT !.toHost = Tail(@)]
       IN  /\ IF m.type = "syncAck"
              THEN /\ syncAcked' = SyncAckedSet
                   /\ retryTimers' = RetryTimersCleared
                   /\ onMessage' = RunHandler(onMessage, TRUE, onMessage).onMessage
              ELSE UNCHANGED <<syncAcked, retryTimers, onMessage>>
           /\ IF m.type = "ready"
              THEN IF screen = "upgrade"
                   THEN BothReady(w, [hostMp EXCEPT !.guestReady = TRUE])
                   ELSE /\ hostMp' = [hostMp EXCEPT !.guestReady = TRUE]
                        /\ wire' = w
                        /\ UNCHANGED screen
              ELSE /\ wire' = IF m.type = "upgradeChoice" /\ affordable
                              THEN ToGuest(w, PhaseMsg("upgrade", "none", missionIndex))
                              ELSE w
                   /\ UNCHANGED <<screen, hostMp>>
    /\ (Head(wire.toHost).type # "upgradeChoice") => ~affordable
    /\ UNCHANGED <<missionIndex, round, startTimer, guest>>
    /\ PhaseFrame

\* ---- the guest ----
\* net.onMessage on the guest: its state after the message
GuestAfter(g, m) ==
    IF m.type = "briefing"
    THEN [g EXCEPT !.screen = "briefing", !.missionIndex = m.missionIndex, !.mp = NoReady]
    ELSE IF m.type = "upgrade"
    THEN [g EXCEPT !.screen = "upgrade", !.missionIndex = m.missionIndex, !.mp = NoReady]
    ELSE IF m.type = "start"
    THEN [g EXCEPT !.screen = "playing"]
    ELSE IF m.type = "ready"
    THEN [g EXCEPT !.mp.hostReady = TRUE]
    ELSE IF m.type = "fullSync"
    THEN IF m.kind \in {"saved", "failed"}
         THEN [g EXCEPT !.screen = m.kind, !.missionIndex = m.missionIndex]
         ELSE IF m.kind = "victory"
         THEN [g EXCEPT !.screen = "lobby", !.missionIndex = 0]
         ELSE [g EXCEPT !.screen = "playing", !.missionIndex = m.missionIndex,
                        !.world = m.round]
    ELSE g

PhaseGuestReceives ==
    /\ wire.toGuest # <<>>
    /\ LET m == Head(wire.toGuest)
           w == [wire EXCEPT !.toGuest = Tail(@)]
       IN  /\ guest' = GuestAfter(guest, m)
           /\ IF m.type = "fullSync" /\ m.kind \in AckedKinds
              THEN /\ CanSend(wire.toHost, 1)
                   /\ wire' = ToHost(w, AckMsg(m.round))
              ELSE wire' = w
    /\ UNCHANGED <<screen, missionIndex, round, startTimer, retryTimers, syncAcked,
                   onMessage, hostMp>>
    /\ PhaseFrame

\* handleAction, case 'upgrade', on the guest: the ready button
PhaseGuestReady ==
    /\ guest.screen = "upgrade"
    /\ CanSend(wire.toHost, 1)
    /\ guest' = [guest EXCEPT !.mp.guestReady = TRUE]
    /\ wire' = ToHost(wire, PhaseMsg("ready", "none", 0))
    /\ UNCHANGED <<screen, missionIndex, round, startTimer, retryTimers, syncAcked,
                   onMessage, hostMp>>
    /\ PhaseFrame

\* handleAction, case 'upgrade', on the guest: an upgrade card
PhaseGuestChoice ==
    /\ guest.screen = "upgrade"
    /\ CanSend(wire.toHost, 1)
    /\ wire' = ToHost(wire, PhaseMsg("upgradeChoice", "none", 0))
    /\ UNCHANGED <<screen, missionIndex, round, startTimer, retryTimers, syncAcked,
                   onMessage, guest, hostMp>>
    /\ PhaseFrame

\* handleKeyDown, case 'Escape', on the guest
PhaseGuestEscape ==
    /\ guest.screen \in {"playing", "paused"}
    /\ guest' = [guest EXCEPT !.screen = IF @ = "playing" THEN "paused" ELSE "playing"]
    /\ UNCHANGED <<screen, missionIndex, round, startTimer, retryTimers, syncAcked,
                   onMessage, hostMp, wire>>
    /\ PhaseFrame

\* both peers in the lobby of a connected session
InitPhase ==
    /\ NetIdle
    /\ PureIdle
    /\ screen = "lobby"
    /\ mp = [NoMp EXCEPT !.on = TRUE, !.netRole = "host", !.connected = TRUE]
    /\ networkRef = TRUE
    /\ connState = "connected"
    /\ link = "open"
    /\ netRetry = {}
    /\ missionIndex = 0
    /\ round = 0
    /\ startTimer = FALSE
    /\ retryTimers = {}
    /\ syncAcked = [r \in Rounds |-> FALSE]
    /\ ackSeen = [r \in Rounds |-> FALSE]
    /\ onMessage = <<>>
    /\ fullSyncSends = [r \in Rounds |-> 0]
    /\ keptOpen = [r \in Rounds |-> FALSE]
    /\ simTicks = 0
    /\ lastStep = NoStep
    /\ guest = [screen |-> "lobby", missionIndex |-> 0, mp |-> NoReady, world |-> 0]
    /\ hostMp = NoReady
    /\ wire = [toGuest |-> <<>>, toHost |-> <<>>]

NextPhase ==
    \/ PhaseLobbyStart
    \/ \E throws \in BOOLEAN : PhaseStartGame(throws)
    \/ PhaseSendRetry
    \/ \E i \in DOMAIN RetryDelays : PhaseRetryTimer(i)
    \/ PhaseStartTimer
    \/ \E o \in {"saved", "failed"} : PhaseHostLoop(o)
    \/ PhaseRoundEnd
    \/ PhaseHostReady
    \/ PhaseHostEscape
    \/ \E a \in BOOLEAN : PhaseHostReceives(a)
    \/ PhaseGuestReceives
    \/ PhaseGuestReady
    \/ PhaseGuestChoice
    \/ PhaseGuestEscape

SpecPhase == InitPhase /\ [][NextPhase]_vars

(***************************************************************************)
(* SpecCodec: serializeSnapshot and deserializeSnapshot                    *)
(* (src/src/game/netSync.ts) applied to one StateSnapshot.  Numbers are    *)
(* fixed-point, in hundredths: 25 is 0.25, 100040 is 1000.4 ms.  An        *)
(* optional field is a sequence of no or one value.  The JSON text is      *)
(* modelled by the object it renders, a function from the keys present.    *)
(***************************************************************************)

\* values of a float field, and of performance.now()
Numbers == {-15, -5, 4, 25}

Times == {100000, 100040, 100050}

UpTo(S) == UNION {[1..n -> S] : n \in 0..MaxUnits}

Optional(S) == {<<>>} \cup {<<v>> : v \in S}

SnapEntities == [x : Numbers, health : {100}]

SnapPatients == [x : {25}, caught : BOOLEAN, storyIdx : {0, 1}]

SnapPowerUps == [type : {"nitro"}, collected : BOOLEAN]

\* the StateSnapshot values createSnapshot can build
Snapshots ==
    [seq : {7}, ts : Times, amb1 : SnapEntities, patients : UpTo(SnapPatients),
     powerUps : Optional(SnapPowerUps), timeLeft : {595}, scores : {<<3, 1>>},
     screen : {"playing", "saved"}, amb2 : Optional(SnapEntities),
     derbyRound : Optional({0}), activeEvent : Optional([type : {"storm"}, timer : {25}]),
     nearMissCombo : {0, 2}, isDrifting : BOOLEAN]

\* Math.round(n): the nearest integer, a half rounded up
MathRound(n) == ((n + 50) \div 100) * 100

\* roundNum(n) = Math.round(n * 10) / 10
RoundNum(n) == ((n + 5) \div 10) * 10

Flag(b) == IF b THEN 1 ELSE 0

CompactEntity(e) == <<RoundNum(e.x), e.health>>

\* serializeSnapshot(snap): the compact object, optional keys left out
SerializeSnapshot(snap) ==
    [q |-> snap.seq,
     t |-> MathRound(snap.ts),
     a |-> CompactEntity(snap.amb1),
     p |-> [i \in DOMAIN snap.patients |->
              <<RoundNum(snap.patients[i].x), Flag(snap.patients[i].caught),
                snap.patients[i].storyIdx>>],
     u |-> [i \in DOMAIN snap.powerUps |->
              <<snap.powerUps[i].type, Flag(snap.powerUps[i].collected)>>],
     tl |-> RoundNum(snap.timeLeft),
     sc |-> snap.scores,
     sr |-> snap.screen]
    @@ (IF snap.amb2 # <<>> THEN [a2 |-> CompactEntity(snap.amb2[1])] ELSE <<>>)
    @@ (IF snap.derbyRound # <<>> THEN [dr |-> snap.derbyRound[1]] ELSE <<>>)
    @@ (IF snap.activeEvent # <<>>
        THEN [ev |-> [t |-> snap.activeEvent[1].type,
                      m |-> RoundNum(snap.activeEvent[1].timer)]]
        ELSE <<>>)
    @@ (IF snap.nearMissCombo # 0 THEN [nm |-> snap.nearMissCombo] ELSE <<>>)
    @@ (IF snap.isDrifting THEN [id |-> 1] ELSE <<>>)

Entity(a) == [x |-> a[1], health |-> a[2]]

\* deserializeSnapshot(data), compact format
DeserializeSnapshot(c) ==
    [seq |-> c.q,
     ts |-> c.t,
     amb1 |-> Entity(c.a),
     patients |-> [i \in DOMAIN c.p |->
                     [x |-> c.p[i][1], caught |-> c.p[i][2] # 0, storyIdx |-> c.p[i][3]]],
     powerUps |-> [i \in DOMAIN c.u |-> [type |-> c.u[i][1], collected |-> c.u[i][2] # 0]],
     timeLeft |-> c.tl,
     scores |-> c.sc,
     screen |-> c.sr,
     amb2 |-> IF "a2" \in DOMAIN c THEN <<Entity(c.a2)>> ELSE <<>>,
     derbyRound |-> IF "dr" \in DOMAIN c THEN <<c.dr>> ELSE <<>>,
     activeEvent |-> IF "ev" \in DOMAIN c
                     THEN <<[type |-> c.ev.t, timer |-> c.ev.m]>>
                     ELSE <<>>,
     nearMissCombo |-> IF "nm" \in DOMAIN c THEN c.nm ELSE 0,
     isDrifting |-> "id" \in DOMAIN c /\ c.id # 0]

\* the host: serializeSnapshot(createSnapshot(state))
Serialize ==
    /\ encoded = <<>>
    /\ encoded' = <<SerializeSnapshot(snapshot)>>
    /\ UNCHANGED <<snapshot, decoded>>
    /\ UNCHANGED <<netVars, sessVars, phaseVars, interpVars, roomVars, seqVars, appVars>>

\* the guest: deserializeSnapshot(msg.data)
Deserialize ==
    /\ encoded # <<>> /\ decoded = <<>>
    /\ decoded' = <<DeserializeSnapshot(encoded[1])>>
    /\ UNCHANGED <<snapshot, encoded>>
    /\ UNCHANGED <<netVars, sessVars, phaseVars, interpVars, roomVars, seqVars, appVars>>

InitCodec ==
    /\ NetIdle /\ SessionIdle /\ PhaseIdle /\ InterpIdle /\ RoomIdle /\ SeqIdle /\ AppIdle
    /\ snapshot \in Snapshots
    /\ encoded = <<>>
    /\ decoded = <<>>

NextCodec == Serialize \/ Deserialize

SpecCodec == InitCodec /\ [][NextCodec]_vars

(***************************************************************************)
(* The snapshot interpolation of netSync.ts.  Positions, times and timers  *)
(* are even integers and t counts halves, so that the products with t = 0, *)
(* 0.5 and 1 are exact; angles are whole degrees, Math.PI is 180.          *)
(***************************************************************************)

\* the most patients of an interpolated snapshot
MaxLerp == 1

\* the values of t handed to interpolateSnapshots, in halves: -0.5 .. 1.5
InterpTs == {-1, 0, 1, 2, 3}

\* the scalar fields of a StateSnapshot at five moments of a round; the angles
\* are whole degrees, 190 is half a turn after 10
Moments ==
    { [ts |-> 100000, x |-> 0, angle |-> 350, health |-> 100, nitroTimer |-> 30,
       timeLeft |-> 520, comboTimer |-> 20, scores |-> <<0, 0>>, screen |-> "playing"],
      [ts |-> 100100, x |-> 40, angle |-> 10, health |-> 60, nitroTimer |-> 0,
       timeLeft |-> 500, comboTimer |-> 0, scores |-> <<1, 0>>, screen |-> "playing"],
      [ts |-> 100200, x |-> -60, angle |-> 180, health |-> 60, nitroTimer |-> 0,
       timeLeft |-> 480, comboTimer |-> 40, scores |-> <<1, 0>>, screen |-> "playing"],
      [ts |-> 100300, x |-> -60, angle |-> 730, health |-> 0, nitroTimer |-> 0,
       timeLeft |-> 460, comboTimer |-> 0, scores |-> <<1, 0>>, screen |-> "failed"],
      [ts |-> 100400, x |-> -60, angle |-> 190, health |-> 0, nitroTimer |-> 0,
       timeLeft |-> 440, comboTimer |-> 0, scores |-> <<1, 0>>, screen |-> "failed"] }

LerpPatients == [x : {0, 40}, caught : BOOLEAN]

LerpEntityAt(m, dx) ==
    [x |-> m.x + dx, angle |-> m.angle, health |-> m.health, nitroTimer |-> m.nitroTimer]

\* the StateSnapshot the host builds at moment m
Frame(m, ps, two) ==
    [seq |-> 7, ts |-> m.ts, amb1 |-> LerpEntityAt(m, 0), patients |-> ps,
     amb2 |-> IF two THEN <<LerpEntityAt(m, 20)>> ELSE <<>>,
     timeLeft |-> m.timeLeft, scores |-> m.scores, screen |-> m.screen,
     comboTimer |-> m.comboTimer]

InterpSnapshots ==
    { Frame(m, ps, two) : m \in Moments,
                          ps \in UNION {[1..n -> LerpPatients] : n \in 0..MaxLerp},
                          two \in BOOLEAN }

\* a + (b - a) * t
LerpNum(a, b, t) == a + ((b - a) * t) \div 2

\* the two while loops of lerpAngle
RECURSIVE ShortWay(_)
ShortWay(diff) ==
    IF diff > 180 THEN ShortWay(diff - 360)
    ELSE IF diff < -180 THEN ShortWay(diff + 360)
    ELSE diff

LerpAngleLong(a, b, t) == a + ((b - a) * t) \div 2

LerpAngle(a, b, t) == a + (ShortWay(b - a) * t) \div 2

LerpEntity(a, b, t) ==
    [x |-> LerpNum(a.x, b.x, t), angle |-> LerpAngle(a.angle, b.angle, t),
     health |-> b.health, nitroTimer |-> b.nitroTimer]

\* Math.max(0, Math.min(1, t))
Clamped(t) == IF t < 0 THEN 0 ELSE IF t > 2 THEN 2 ELSE t

LerpPatient(pp, cp, t) == [cp EXCEPT !.x = LerpNum(pp.x, cp.x, t)]

InterpolateSnapshots(p, c, t) ==
    LET clamped == Clamped(t)
    IN  [seq |-> c.seq,
         ts |-> LerpNum(p.ts, c.ts, clamped),
         amb1 |-> LerpEntity(p.amb1, c.amb1, clamped),
         patients |->
             [i \in DOMAIN c.patients |->
                 IF i \notin DOMAIN p.patients \/ c.patients[i].caught
                 THEN c.patients[i]
                 ELSE LerpPatient(p.patients[i], c.patients[i], clamped)],
         amb2 |-> IF p.amb2 # <<>> /\ c.amb2 # <<>>
                  THEN <<LerpEntity(p.amb2[1], c.amb2[1], clamped)>>
                  ELSE c.amb2,
         timeLeft |-> LerpNum(p.timeLeft, c.timeLeft, clamped),
         scores |-> c.scores,
         screen |-> c.screen,
         comboTimer |-> c.comboTimer]

\* the guest's render loop: interpolateSnapshots(prev, curr, t)
Interpolate ==
    /\ interpolated = <<>>
    /\ interpolated' = <<InterpolateSnapshots(prev, curr, interpT)>>
    /\ UNCHANGED <<prev, curr, interpT>>
    /\ UNCHANGED <<netVars, sessVars, phaseVars, codecVars, roomVars, seqVars, appVars>>

InitInterp ==
    /\ NetIdle /\ SessionIdle /\ PhaseIdle /\ CodecIdle /\ RoomIdle /\ SeqIdle /\ AppIdle
    /\ prev \in InterpSnapshots
    /\ curr \in InterpSnapshots
    /\ interpT \in InterpTs
    /\ interpolated = <<>>

NextInterp == Interpolate

SpecInterp == InitInterp /\ [][NextInterp]_vars

(***************************************************************************)
(* The room codes of net.ts.  A string is a sequence of one-character      *)
(* strings; a peer identifier is the prefix followed by the code.          *)
(***************************************************************************)

RoomChars ==
    << "A", "B", "C", "D", "E", "F", "G", "H", "J", "K", "L", "M", "N", "P", "Q", "R",
       "S", "T", "U", "V", "W", "X", "Y", "Z", "2", "3", "4", "5", "6", "7", "8", "9" >>

LowerLetters ==
    << "a", "b", "c", "d", "e", "f", "g", "h", "i", "j", "k", "l", "m",
       "n", "o", "p", "q", "r", "s", "t", "u", "v", "w", "x", "y", "z" >>

UpperLetters ==
    << "A", "B", "C", "D", "E", "F", "G", "H", "I", "J", "K", "L", "M",
       "N", "O", "P", "Q", "R", "S", "T", "U", "V", "W", "X", "Y", "Z" >>

Whitespace == {" ", "\t", "\n"}

\* the values of Math.floor(Math.random() * ROOM_CHARS.length) the model draws
RandomIndexes == {0, 7, 24, 31}

\* the loop of generateRoomCode runs for i = 0 .. 5
CodePositions == 1..6

\* generateRoomCode, with the random indexes it is given
GenerateRoomCode(rs) == [i \in CodePositions |-> RoomChars[rs[i] + 1]]

\* String.prototype.toUpperCase, on one character and on a string
UpperChar(ch) ==
    IF \E k \in DOMAIN LowerLetters : LowerLetters[k] = ch
    THEN UpperLetters[CHOOSE k \in DOMAIN LowerLetters : LowerLetters[k] = ch]
    ELSE ch

ToUpperCaseNot(s) == s

ToUpperCase(s) == [i \in DOMAIN s |-> UpperChar(s[i])]

LowerChar(ch) ==
    IF \E k \in DOMAIN UpperLetters : UpperLetters[k] = ch
    THEN LowerLetters[CHOOSE k \in DOMAIN UpperLetters : UpperLetters[k] = ch]
    ELSE ch

\* String.prototype.trim
RECURSIVE Trim(_)
Trim(s) ==
    IF s = <<>> THEN s
    ELSE IF Head(s) \in Whitespace THEN Trim(Tail(s))
    ELSE IF s[Len(s)] \in Whitespace THEN Trim(SubSeq(s, 1, Len(s) - 1))
    ELSE s

\* PEER_PREFIX + code
PeerIdOf(code) == <<"ambchase-">> \o code

\* the ways the guest types the host's code: which letters in lower case,
\* and the whitespace before and after
CaseMasks == {{}, {2}, {1, 3, 5}, CodePositions}

Paddings == {<<>>, <<" ">>, <<"\t", " ">>}

Typing(code, mask, before, after) ==
    before \o [i \in DOMAIN code |-> IF i \in mask THEN LowerChar(code[i]) ELSE code[i]] \o after

\* createRoom: const roomCode = generateRoomCode(); const peerId = PEER_PREFIX + roomCode
CreateRoomCode ==
    /\ generated = <<>>
    /\ generated' = <<GenerateRoomCode(randoms)>>
    /\ hostPeerId' = <<PeerIdOf(GenerateRoomCode(randoms))>>
    /\ UNCHANGED <<randoms, typed, guestPeerId>>
    /\ UNCHANGED <<netVars, sessVars, phaseVars, codecVars, interpVars, seqVars, appVars>>

\* the guest enters the code the host read out
TypeRoomCode(mask, before, after) ==
    /\ generated # <<>> /\ typed = <<>>
    /\ typed' = <<Typing(generated[1], mask, before, after)>>
    /\ UNCHANGED <<randoms, generated, hostPeerId, guestPeerId>>
    /\ UNCHANGED <<netVars, sessVars, phaseVars, codecVars, interpVars, seqVars, appVars>>

\* joinRoom: const code = roomCode.toUpperCase().trim(); const peerId = PEER_PREFIX + code
ResolveRoomCode ==
    /\ typed # <<>> /\ guestPeerId = <<>>
    /\ guestPeerId' = <<PeerIdOf(Trim(ToUpperCase(typed[1])))>>
    /\ UNCHANGED <<randoms, generated, typed, hostPeerId>>
    /\ UNCHANGED <<netVars, sessVars, phaseVars, codecVars, interpVars, seqVars, appVars>>

InitRoom ==
    /\ NetIdle /\ SessionIdle /\ PhaseIdle /\ CodecIdle /\ InterpIdle /\ SeqIdle /\ AppIdle
    /\ randoms \in [CodePositions -> RandomIndexes]
    /\ generated = <<>>
    /\ typed = <<>>
    /\ hostPeerId = <<>>
    /\ guestPeerId = <<>>

NextRoom ==
    \/ CreateRoomCode
    \/ \E mask \in CaseMasks, before \in Paddings, after \in Paddings :
           TypeRoomCode(mask, before, after)
    \/ ResolveRoomCode

SpecRoom == InitRoom /\ [][NextRoom]_vars

(***************************************************************************)
(* The sequence numbers one peer puts on its messages: the channel is open *)
(* and not congested, so every message handed to sendReliable is sent.     *)
(***************************************************************************)

\* the most messages the peer sends
MaxSent == 3

\* the kinds the application sends through sendReliable with a literal seq: 0
AppKinds == {"ready", "fullSync", "start", "snapshot"}

\* the heartbeat: sendReliable({ type: 'ping', seq: this.seq++, ... })
SendPing ==
    /\ Len(sent) < MaxSent
    /\ sent' = Append(sent, [type |-> "ping", seq |-> seq])
    /\ seq' = seq + 1
    /\ UNCHANGED <<netVars, sessVars, phaseVars, codecVars, interpVars, roomVars, appVars>>

\* sendKeys: sendReliable({ type: 'keys', seq: this.seq++, ... })
SendKeys ==
    /\ Len(sent) < MaxSent
    /\ sent' = Append(sent, [type |-> "keys", seq |-> seq])
    /\ seq' = seq + 1
    /\ UNCHANGED <<netVars, sessVars, phaseVars, codecVars, interpVars, roomVars, appVars>>

\* the answer to a ping: sendReliable({ type: 'pong', seq: msg.seq, ... })
SendPong(n) ==
    /\ Len(sent) < MaxSent
    /\ sent' = Append(sent, [type |-> "pong", seq |-> n])
    /\ UNCHANGED seq
    /\ UNCHANGED <<netVars, sessVars, phaseVars, codecVars, interpVars, roomVars, appVars>>

\* the application: net.sendReliable({ type: ..., seq: 0, ... })
SendFromApp(type) ==
    /\ Len(sent) < MaxSent
    /\ sent' = Append(sent, [type |-> type, seq |-> 0])
    /\ UNCHANGED seq
    /\ UNCHANGED <<netVars, sessVars, phaseVars, codecVars, interpVars, roomVars, appVars>>

InitSeq ==
    /\ NetIdle /\ SessionIdle /\ PhaseIdle /\ CodecIdle /\ InterpIdle /\ RoomIdle /\ AppIdle
    /\ seq = 0
    /\ sent = <<>>

NextSeq ==
    \/ SendPing
    \/ SendKeys
    \/ \E n \in 0..MaxSent : SendPong(n)
    \/ \E type \in AppKinds : SendFromApp(type)

SpecSeq == InitSeq /\ [][NextSeq]_vars

(***************************************************************************)
(* The session state of one App and its message handler (audio.ts)         *)
(***************************************************************************)

\* how many of the four upgrades are modelled
MaxUpgradeKeys == 2

\* the most money a player holds
MaxMoney == 400

\* the snapshots of a round are numbered up to MaxTick
MaxTick == 2

\* the upgrades of types.ts, in the order of the upgrade screen
UpgradeNames == <<"engine", "tires", "siren", "armor">>

UpgradeKeys == {UpgradeNames[i] : i \in 1..MaxUpgradeKeys}

\* guestUpgrades of createMultiplayerState
NoUpgrades == [k \in UpgradeKeys |-> 0]

\* the price of the next level of an upgrade
Cost(level) == (level + 1) * 100

\* byte & bit, for a bit that is a power of two
BitAnd(byte, bit) == ((byte \div bit) % 2) * bit

\* mutant: honk shares the bit of space
SerializeKeysHonkAsSpace(keys) ==
    (IF keys.up THEN 1 ELSE 0) + (IF keys.down THEN 2 ELSE 0)
        + (IF keys.left THEN 4 ELSE 0) + (IF keys.right THEN 8 ELSE 0)
        + (IF keys.space \/ keys.honk THEN 16 ELSE 0)

\* serializeKeys: the six keys as the low six bits; the bits are distinct, so
\* their bitwise or is their sum
SerializeKeys(keys) ==
    (IF keys.up THEN 1 ELSE 0) + (IF keys.down THEN 2 ELSE 0)
        + (IF keys.left THEN 4 ELSE 0) + (IF keys.right THEN 8 ELSE 0)
        + (IF keys.space THEN 16 ELSE 0) + (IF keys.honk THEN 32 ELSE 0)

\* deserializeKeys
DeserializeKeys(byte) ==
    [up    |-> BitAnd(byte, 1) # 0,
     down  |-> BitAnd(byte, 2) # 0,
     left  |-> BitAnd(byte, 4) # 0,
     right |-> BitAnd(byte, 8) # 0,
     space |-> BitAnd(byte, 16) # 0,
     honk  |-> BitAnd(byte, 32) # 0]

\* createDefaultKeys
CreateDefaultKeys ==
    [up |-> FALSE, down |-> FALSE, left |-> FALSE, right |-> FALSE,
     space |-> FALSE, honk |-> FALSE]

\* every combination of the six keys
AllKeys == [{"up", "down", "left", "right", "space", "honk"} -> BOOLEAN]

\* null, as a snapshot; a snapshot is named by the round it belongs to and its
\* number in that round
NoSnap == [round |-> 0, tick |-> 0]

\* createMultiplayerState, once the peers are connected (lobbyScreen is
\* 'modeSelect' from then on)
CreateMultiplayerState(netRole) ==
    [netRole |-> netRole, multiplayerMode |-> "coopRescue", lobbyScreen |-> "modeSelect",
     remoteKeys |-> CreateDefaultKeys,
     prevSnapshot |-> NoSnap, currSnapshot |-> NoSnap, snapshotFresh |-> FALSE,
     roundEndTime |-> FALSE, remoteRematchRequested |-> FALSE,
     guestUpgrades |-> NoUpgrades, guestMoney |-> 0,
     hostReady |-> FALSE, guestReady |-> FALSE]

\* the part of the GameState the session touches; money and upgrades are the
\* guest's, as its upgrade screen shows them; ambulance names where the drawn
\* world comes from: the round, and the snapshot of that round (0: the round's
\* FullSyncPayload)
SessionState(netRole, scr) ==
    [screen |-> scr, missionIndex |-> 0, money |-> 0, upgrades |-> NoUpgrades,
     keys |-> CreateDefaultKeys, ambulance |-> NoSnap,
     mp |-> CreateMultiplayerState(netRole)]

\* a NetMessage; the fields a type does not use keep these values
NetMessage ==
    [type |-> "none", byte |-> -1, snap |-> NoSnap, payload |-> "none", round |-> 0,
     roundEnd |-> "none", missionIndex |-> 0, guestMoney |-> 0,
     guestUpgrades |-> NoUpgrades, key |-> "none", mode |-> "none"]

Typed(type) == [NetMessage EXCEPT !.type = type]

KeysMsg(byte) == [Typed("keys") EXCEPT !.byte = byte]

SnapMsg(r, t) == [Typed("snapshot") EXCEPT !.snap = [round |-> r, tick |-> t]]

\* the FullSyncPayload of round r (createFullSyncPayload)
FullSyncPayload(r, mi) ==
    [Typed("fullSync") EXCEPT !.payload = "world", !.round = r, !.missionIndex = mi]

RoundEndSync(scr, mi) ==
    [Typed("fullSync") EXCEPT !.payload = "roundEnd", !.roundEnd = scr, !.missionIndex = mi]

VictorySync == [Typed("fullSync") EXCEPT !.payload = "victory"]

BriefingMsg(mi) == [Typed("briefing") EXCEPT !.missionIndex = mi]

UpgradeMsg(mi, money, gu) ==
    [Typed("upgrade") EXCEPT !.missionIndex = mi, !.guestMoney = money, !.guestUpgrades = gu]

ChoiceMsg(key) == [Typed("upgradeChoice") EXCEPT !.key = key]

ModeMsg(mode) == [Typed("modeSelect") EXCEPT !.mode = mode]

\* what a call of the handler leaves: the new stateRef.current and the
\* sendReliable calls it made
Handled(s, out) == [state |-> s, out |-> out]

\* case 'keys': data is [keyByte]; a message without a byte is skipped
OnKeys(s, msg) ==
    IF s.mp.netRole = "host" /\ msg.byte >= 0
    THEN Handled([s EXCEPT !.mp.remoteKeys = DeserializeKeys(msg.byte)], <<>>)
    ELSE Handled(s, <<>>)

\* case 'snapshot'
OnSnapshotMsg(s, msg) ==
    IF s.mp.netRole = "guest"
    THEN Handled([s EXCEPT !.mp.prevSnapshot = s.mp.currSnapshot,
                           !.mp.currSnapshot = msg.snap,
                           !.mp.snapshotFresh = TRUE], <<>>)
    ELSE Handled(s, <<>>)

\* applyFullSyncPayload: the world of the payload and screen 'playing'; mp
\* keeps every field but the second ambulance and the scores
ApplyFullSyncPayload(s, msg) ==
    [s EXCEPT !.missionIndex = msg.missionIndex,
              !.ambulance = [round |-> msg.round, tick |-> 0],
              !.screen = "playing"]

\* case 'fullSync'
OnFullSync(s, msg) ==
    IF s.mp.netRole # "guest" THEN Handled(s, <<>>)
    ELSE IF msg.payload = "roundEnd"
    THEN Handled([s EXCEPT !.screen = msg.roundEnd,
                           !.missionIndex = msg.missionIndex,
                           !.mp.roundEndTime = TRUE], <<>>)
    ELSE IF msg.payload = "victory"
    THEN Handled([s EXCEPT !.screen = "lobby", !.missionIndex = 0,
                           !.mp.lobbyScreen = "modeSelect",
                           !.mp.roundEndTime = FALSE], <<>>)
    ELSE Handled(ApplyFullSyncPayload(s, msg), <<Typed("syncAck")>>)

\* mutant: the host obeys a 'start' too
OnStartAnyRole(s) == Handled([s EXCEPT !.screen = "playing"], <<>>)

\* case 'start'
OnStart(s) ==
    IF s.mp.netRole = "guest"
    THEN Handled([s EXCEPT !.screen = "playing"], <<>>)
    ELSE Handled(s, <<>>)

\* case 'modeSelect'
OnModeSelect(s, msg) ==
    IF s.mp.netRole = "guest"
    THEN Handled([s EXCEPT !.mp.multiplayerMode = msg.mode,
                           !.mp.lobbyScreen = "modeSelect"], <<>>)
    ELSE Handled(s, <<>>)

\* case 'rematch'
OnRematch(s) == Handled([s EXCEPT !.mp.remoteRematchRequested = TRUE], <<>>)

\* case 'briefing'
OnBriefing(s, msg) ==
    IF s.mp.netRole = "guest"
    THEN Handled([s EXCEPT !.screen = "briefing", !.missionIndex = msg.missionIndex,
                           !.mp.hostReady = FALSE, !.mp.guestReady = FALSE], <<>>)
    ELSE Handled(s, <<>>)

\* case 'upgrade'
OnUpgrade(s, msg) ==
    IF s.mp.netRole = "guest"
    THEN Handled([s EXCEPT !.screen = "upgrade", !.missionIndex = msg.missionIndex,
                           !.money = msg.guestMoney, !.upgrades = msg.guestUpgrades,
                           !.mp.hostReady = FALSE, !.mp.guestReady = FALSE,
                           !.mp.guestMoney = msg.guestMoney,
                           !.mp.guestUpgrades = msg.guestUpgrades], <<>>)
    ELSE Handled(s, <<>>)

\* mutant: every choice of an upgrade is accepted
AcceptsAlways(s, key) == key \in DOMAIN s.mp.guestUpgrades

\* the test of case 'upgradeChoice'; the level of a key that is no upgrade is
\* undefined, and undefined < 3 is false
Accepts(s, key) ==
    /\ key \in DOMAIN s.mp.guestUpgrades
    /\ s.mp.guestUpgrades[key] < 3
    /\ s.mp.guestMoney >= Cost(s.mp.guestUpgrades[key])

\* the state after an accepted choice
Bought(s, key) ==
    [s EXCEPT !.mp.guestUpgrades[key] = @ + 1,
              !.mp.guestMoney = @ - Cost(s.mp.guestUpgrades[key])]

\* case 'upgradeChoice'
OnUpgradeChoice(s, msg) ==
    IF s.mp.netRole = "host" /\ Accepts(s, msg.key)
    THEN Handled(Bought(s, msg.key),
                 <<UpgradeMsg(s.missionIndex, Bought(s, msg.key).mp.guestMoney,
                              Bought(s, msg.key).mp.guestUpgrades)>>)
    ELSE Handled(s, <<>>)

\* the flag a 'ready' sets: the other peer's
ReadySet(s) ==
    IF s.mp.netRole = "guest" THEN [s EXCEPT !.mp.hostReady = TRUE]
    ELSE [s EXCEPT !.mp.guestReady = TRUE]

\* case 'ready'
OnReady(s) ==
    IF /\ s.mp.netRole = "host" /\ s.screen = "upgrade"
       /\ ReadySet(s).mp.hostReady /\ ReadySet(s).mp.guestReady
    THEN Handled([ReadySet(s) EXCEPT !.screen = "briefing",
                                     !.mp.hostReady = FALSE, !.mp.guestReady = FALSE],
                 <<BriefingMsg(s.missionIndex)>>)
    ELSE Handled(ReadySet(s), <<>>)

\* net.onMessage of the App: the switch over msg.type; a type without a case
\* ('syncAck', 'ping', 'pong') falls through
OnMessage(s, msg) ==
    CASE msg.type = "keys" -> OnKeys(s, msg)
      [] msg.type = "snapshot" -> OnSnapshotMsg(s, msg)
      [] msg.type = "fullSync" -> OnFullSync(s, msg)
      [] msg.type = "start" -> OnStart(s)
      [] msg.type = "modeSelect" -> OnModeSelect(s, msg)
      [] msg.type = "rematch" -> OnRematch(s)
      [] msg.type = "briefing" -> OnBriefing(s, msg)
      [] msg.type = "upgrade" -> OnUpgrade(s, msg)
      [] msg.type = "upgradeChoice" -> OnUpgradeChoice(s, msg)
      [] msg.type = "ready" -> OnReady(s)
      [] OTHER -> Handled(s, <<>>)

\* no message
NoMessage == Typed("none")

Missions == 0..(NumMissions - 1)

\* the upgrades the host reports once the guest bought the first one
FirstBought == [k \in UpgradeKeys |-> IF k = UpgradeNames[1] THEN 1 ELSE 0]

\* the key bytes of the session model: no key, three keys, all six, and a byte
\* with bits above the low six
KeyBytes == {0, 21, 63, 255}

\* the messages whose order does not matter to the receiver; -1 is a 'keys'
\* message without a byte, "nitro" is no upgrade
Unordered ==
    {KeysMsg(b) : b \in KeyBytes \cup {-1}}
        \cup {ChoiceMsg(k) : k \in UpgradeKeys \cup {"nitro"}}
        \cup {Typed(t) : t \in {"ready", "rematch", "syncAck", "start"}}
        \cup {BriefingMsg(mi) : mi \in Missions}
        \cup {UpgradeMsg(1, 100, NoUpgrades), UpgradeMsg(1, 0, FirstBought)}
        \cup {RoundEndSync(scr, 0) : scr \in {"saved", "failed"}}
        \cup {VictorySync, ModeMsg("copsAndRobbers")}

\* the rounds and snapshots the other peer has sent so far
NothingSent == [round |-> 0, tick |-> 0]

\* what a guest has been sent decides what can arrive next: the host sends the
\* FullSyncPayload of a new round or a retried copy of the current one
\* (startMultiplayerGame), and numbers the snapshots of a round in order
InOrder(msg) ==
    /\ msg.type = "fullSync" /\ msg.payload = "world"
          => /\ msg.round \in {remote.round, remote.round + 1}
             /\ msg.round \in Rounds
    /\ msg.type = "snapshot"
          => /\ remote.round \in Rounds
             /\ msg.snap = [round |-> remote.round, tick |-> remote.tick + 1]
             /\ remote.tick < MaxTick

\* a message arrives; at a host the host's own message types come from no
\* sender the model follows, so any of them can arrive at any time
AppReceives(msg) ==
    /\ stateRef.mp.netRole = "guest" => InOrder(msg)
    /\ remote' = IF stateRef.mp.netRole # "guest"
                 THEN remote
                 ELSE IF msg.type = "fullSync" /\ msg.payload = "world" /\ msg.round # remote.round
                 THEN [round |-> msg.round, tick |-> 0]
                 ELSE IF msg.type = "snapshot"
                 THEN [remote EXCEPT !.tick = @ + 1]
                 ELSE remote
    /\ stateRef' = OnMessage(stateRef, msg).state
    /\ sentNow' = OnMessage(stateRef, msg).out
    /\ received' = msg
    /\ UNCHANGED <<netVars, sessVars, phaseVars, codecVars, interpVars, roomVars, seqVars>>

\* stateRef.current.money - prevMoney: what updateGame did to the host's
\* money in one frame (the host's own money is not part of the model)
MoneyDeltas == {-100, 0, 100}

\* the host's mirror of a money gain
Mirrored(s, delta) ==
    IF delta > 0 THEN [s EXCEPT !.mp.guestMoney = @ + delta] ELSE s

\* a frame of the host on 'playing': updateGame, the mirror of the money
\* gain, the notice of the round's end, every 6th frame a snapshot
AppGameLoopHost(delta, outcome, sixth) ==
    /\ stateRef.mp.netRole = "host" /\ stateRef.screen = "playing"
    /\ stateRef.mp.guestMoney + delta <= MaxMoney
    /\ stateRef' = Mirrored([stateRef EXCEPT !.screen = outcome], delta)
    /\ sentNow' = IF outcome # "playing"
                  THEN <<RoundEndSync(outcome, stateRef.missionIndex)>>
                  ELSE IF sixth
                  THEN <<SnapMsg(stateRef.ambulance.round, stateRef.ambulance.tick)>>
                  ELSE <<>>
    /\ received' = NoMessage
    /\ UNCHANGED remote
    /\ UNCHANGED <<netVars, sessVars, phaseVars, codecVars, interpVars, roomVars, seqVars>>

\* the snapshot a frame of the guest draws: with both snapshots the
\* interpolation, which is prevSnapshot at t = 0 and currSnapshot at t = 1
\* (100 ms after the last snapshot arrived); with one snapshot that one
Drawn(m, late) ==
    IF m.prevSnapshot # NoSnap /\ m.currSnapshot # NoSnap
    THEN (IF late THEN m.currSnapshot ELSE m.prevSnapshot)
    ELSE m.currSnapshot


\* a frame of the guest on 'playing': every 3rd frame the keys, then the
\* snapshots are applied to the state
AppGameLoopGuest(late, third) ==
    /\ stateRef.mp.netRole = "guest" /\ stateRef.screen = "playing"
    /\ ~late => stateRef.mp.snapshotFresh
    /\ stateRef' = [stateRef EXCEPT
                      !.ambulance = IF Drawn(stateRef.mp, late) # NoSnap
                                    THEN Drawn(stateRef.mp, late) ELSE @,
                      !.mp.snapshotFresh = @ /\ ~late]
    /\ sentNow' = IF third THEN <<KeysMsg(SerializeKeys(stateRef.keys))>> ELSE <<>>
    /\ received' = NoMessage
    /\ UNCHANGED remote
    /\ UNCHANGED <<netVars, sessVars, phaseVars, codecVars, interpVars, roomVars, seqVars>>

\* the host's state three seconds after the round ended
AfterRound(s) ==
    IF s.screen = "saved" /\ s.missionIndex + 1 >= NumMissions
    THEN [s EXCEPT !.screen = "lobby", !.missionIndex = 0,
                   !.mp.lobbyScreen = "modeSelect", !.mp.roundEndTime = FALSE]
    ELSE IF s.screen = "saved"
    THEN [s EXCEPT !.screen = "upgrade", !.missionIndex = @ + 1,
                   !.mp.roundEndTime = FALSE,
                   !.mp.hostReady = FALSE, !.mp.guestReady = FALSE]
    ELSE [s EXCEPT !.screen = "briefing", !.mp.roundEndTime = FALSE,
                   !.mp.hostReady = FALSE, !.mp.guestReady = FALSE]

\* what the host sends with that transition
AfterRoundSends(s) ==
    IF s.screen = "saved" /\ s.missionIndex + 1 >= NumMissions
    THEN <<VictorySync>>
    ELSE IF s.screen = "saved"
    THEN <<UpgradeMsg(s.missionIndex + 1, s.mp.guestMoney, s.mp.guestUpgrades)>>
    ELSE <<BriefingMsg(s.missionIndex)>>

\* a frame on 'saved' or 'failed': the first one notes the time, the frames
\* after three seconds move the host on (the guest waits for the host)
AppRoundEndFrame ==
    /\ stateRef.screen \in {"saved", "failed"}
    /\ stateRef.mp.roundEndTime => stateRef.mp.netRole = "host"
    /\ stateRef' = IF ~stateRef.mp.roundEndTime
                   THEN [stateRef EXCEPT !.mp.roundEndTime = TRUE]
                   ELSE AfterRound(stateRef)
    /\ sentNow' = IF ~stateRef.mp.roundEndTime THEN <<>> ELSE AfterRoundSends(stateRef)
    /\ received' = NoMessage
    /\ UNCHANGED remote
    /\ UNCHANGED <<netVars, sessVars, phaseVars, codecVars, interpVars, roomVars, seqVars>>

\* the host's state after the ready button
HostReadied(s) ==
    IF s.mp.guestReady
    THEN [s EXCEPT !.screen = "briefing", !.mp.hostReady = FALSE, !.mp.guestReady = FALSE]
    ELSE [s EXCEPT !.mp.hostReady = TRUE]

\* the ready button of the upgrade screen
AppReadyButton ==
    /\ stateRef.screen = "upgrade"
    /\ stateRef' = IF stateRef.mp.netRole = "host" THEN HostReadied(stateRef)
                   ELSE [stateRef EXCEPT !.mp.guestReady = TRUE]
    /\ sentNow' = IF stateRef.mp.netRole = "host" /\ stateRef.mp.guestReady
                  THEN <<Typed("ready"), BriefingMsg(stateRef.missionIndex)>>
                  ELSE <<Typed("ready")>>
    /\ received' = NoMessage
    /\ UNCHANGED remote
    /\ UNCHANGED <<netVars, sessVars, phaseVars, codecVars, interpVars, roomVars, seqVars>>

\* the guest clicks an upgrade card: the choice goes to the host
AppUpgradeCard(key) ==
    /\ stateRef.screen = "upgrade" /\ stateRef.mp.netRole = "guest"
    /\ sentNow' = <<ChoiceMsg(key)>>
    /\ received' = NoMessage
    /\ UNCHANGED <<stateRef, remote>>
    /\ UNCHANGED <<netVars, sessVars, phaseVars, codecVars, interpVars, roomVars, seqVars>>

\* the host's START button of the lobby
AppLobbyStart ==
    /\ stateRef.screen = "lobby" /\ stateRef.mp.netRole = "host"
    /\ stateRef' = [stateRef EXCEPT !.screen = "briefing",
                                    !.mp.hostReady = FALSE, !.mp.guestReady = FALSE]
    /\ sentNow' = <<BriefingMsg(stateRef.missionIndex)>>
    /\ received' = NoMessage
    /\ UNCHANGED remote
    /\ UNCHANGED <<netVars, sessVars, phaseVars, codecVars, interpVars, roomVars, seqVars>>

\* a connected session: the guest in the lobby, the host in the lobby or in a
\* round it started
InitApp ==
    /\ NetIdle /\ SessionIdle /\ PhaseIdle /\ CodecIdle /\ InterpIdle /\ RoomIdle /\ SeqIdle
    /\ \E netRole \in {"host", "guest"}, scr \in {"lobby", "playing"}, mi \in Missions :
          /\ netRole = "guest" => scr = "lobby" /\ mi = 0
          /\ scr = "lobby" => mi = 0
          /\ stateRef = [SessionState(netRole, scr) EXCEPT !.missionIndex = mi]
    /\ received = NoMessage
    /\ sentNow = <<>>
    /\ remote = NothingSent

NextApp ==
    \/ \E msg \in Unordered : AppReceives(msg)
    \/ \E r \in Rounds, mi \in Missions : AppReceives(FullSyncPayload(r, mi))
    \/ \E r \in Rounds, t \in 1..MaxTick : AppReceives(SnapMsg(r, t))
    \/ \E outcome \in {"playing", "saved", "failed"}, sixth \in BOOLEAN :
          AppGameLoopHost(0, outcome, sixth)
    \/ \E late \in BOOLEAN, third \in BOOLEAN : AppGameLoopGuest(late, third)
    \/ AppRoundEndFrame
    \/ AppReadyButton
    \/ \E key \in UpgradeKeys : AppUpgradeCard(key)
    \/ AppLobbyStart

SpecApp == InitApp /\ [][NextApp]_vars

\* ---- the guest's money and upgrades on the host ----
\* the host in a round it started
InitUpgrade ==
    /\ NetIdle /\ SessionIdle /\ PhaseIdle /\ CodecIdle /\ InterpIdle /\ RoomIdle /\ SeqIdle
    /\ stateRef = SessionState("host", "playing")
    /\ received = NoMessage
    /\ sentNow = <<>>
    /\ remote = NothingSent

NextUpgrade ==
    \/ \E delta \in MoneyDeltas, outcome \in {"playing", "saved", "failed"}, sixth \in BOOLEAN :
          AppGameLoopHost(delta, outcome, sixth)
    \/ \E key \in UpgradeKeys \cup {"nitro"} : AppReceives(ChoiceMsg(key))
    \/ AppRoundEndFrame

SpecUpgrade == InitUpgrade /\ [][NextUpgrade]_vars

\* ---- the keys of the guest on the way to the host ----
\* a round is running: the host with the remote keys at their default, the
\* guest holding any of the 64 combinations of keys
InitKeys ==
    /\ NetIdle /\ SessionIdle /\ PhaseIdle /\ CodecIdle /\ InterpIdle /\ RoomIdle /\ SeqIdle
    /\ \/ stateRef = SessionState("host", "playing")
       \/ \E k \in AllKeys :
             stateRef = [SessionState("guest", "playing") EXCEPT
                            !.keys = k, !.ambulance = [round |-> 1, tick |-> 0]]
    /\ received = NoMessage
    /\ sentNow = <<>>
    /\ remote = [round |-> 1, tick |-> 0]

\* every byte, and -1 for a 'keys' message without one
Bytes == 0..255

NextKeys ==
    \/ \E b \in Bytes \cup {-1} : AppReceives(KeysMsg(b))
    \/ \E late \in BOOLEAN, third \in BOOLEAN : AppGameLoopGuest(late, third)

SpecKeys == InitKeys /\ [][NextKeys]_vars

(***************************************************************************)
(* Claims about GameNetwork                                                *)
(***************************************************************************)

\* the kinds the message table lists as critical
CriticalKinds ==
    {"fullSync", "syncAck", "start", "briefing", "upgrade", "upgradeChoice",
     "ready", "modeSelect", "rematch", "chat"}

\* a direct call of sendReliable that found the channel open
SentOnOpenChannel == lastSend.type # "none" /\ lastSend.open /\ ~lastSend.retry

\* C1: on an open channel with the backlog above 128 KiB every 'snapshot' and
\* 'keys' message is dropped and every critical kind is handed to the channel;
\* with the backlog at or below 128 KiB nothing is dropped.
C1_Backpressure ==
    SentOnOpenChannel =>
        /\ (lastSend.buffered > BufferLimit /\ lastSend.type \in {"snapshot", "keys"})
              => ~lastSend.handed
        /\ lastSend.type \in CriticalKinds => lastSend.handed
        /\ lastSend.buffered <= BufferLimit => lastSend.handed

C1_Witness ==
    /\ SentOnOpenChannel
    /\ lastSend.buffered > BufferLimit
    /\ lastSend.type = "snapshot"
    /\ ~lastSend.handed

\* C2: a 'ping' or 'pong' passed to sendReliable on an open channel is handed to
\* the channel whatever the backlog is.
C2_HeartbeatExempt ==
    (SentOnOpenChannel /\ lastSend.type \in {"ping", "pong"}) => lastSend.handed

\* the heartbeat interval callback runs in this step
HeartbeatFires == pingInterval /\ tillPing = 0 /\ tillPing' = PingPeriod

\* C3 (state part): a running heartbeat never lets more than the timeout window
\* plus one period pass without a pong; it raises the timeout at most once, and
\* once it has, the interval is stopped, so no further ping is sent.
C3_Window ==
    /\ pingInterval => sincePong <= PongTimeout + PingPeriod
    /\ hbTimeouts <= 1
    /\ hbTimeouts = 1 => ~pingInterval

\* C3 (step part): the timeout moves the peer to 'disconnected' and stops the
\* interval in the same step; a heartbeat that finds a pong inside the window
\* and the channel open leaves a connected peer connected.
C3_Step ==
    /\ hbTimeouts' = hbTimeouts + 1 =>
          /\ sincePong > PongTimeout
          /\ state' = "disconnected"
          /\ ~pingInterval'
    /\ (HeartbeatFires /\ state = "connected" /\ sincePong <= PongTimeout /\ DataConnOpen)
          => (state' = "connected" /\ pingInterval')

\* C3: the liveness monitor disconnects exactly once when no pong arrives within
\* the timeout window, and never while a pong arrives in every window.
C3_LivenessMonitor == []C3_Window /\ [][C3_Step]_vars

C3_Witness == hbTimeouts = 1 /\ state = "disconnected" /\ sincePong > PongTimeout

\* C9: once 'disconnected', no transport event moves the GameNetwork to
\* 'connecting' or 'connected'.
C9_DisconnectedTerminal ==
    [][state = "disconnected" => state' \notin {"connecting", "connected"}]_vars

(***************************************************************************)
(* Claims about the multiplayer session                                    *)
(***************************************************************************)

\* the sendReliable calls and 200 ms re-attempts of a step
OutOf(step) == {step.out[i] : i \in DOMAIN step.out}

\* the rounds the host has started
Started == {r \in Rounds : r <= round}

\* every timer of round r's handshake has run or was cancelled
HandshakeOver(r) == r < round \/ ~HandshakePending

\* C4: a round whose handshake sees no syncAck on a channel that stays open
\* gets its fullSync payload sent exactly 1 + 3 = 4 times: one copy at the
\* start and one per retry timer that has fired, never more than 4, and
\* exactly 4 from the moment the last timer has fired.
C4_RetryBudget ==
    \A r \in Started :
        /\ fullSyncSends[r] <= 4
        /\ (keptOpen[r] /\ ~ackSeen[r] /\ r = round)
              => fullSyncSends[r] = 1 + Len(RetryDelays) - Cardinality(retryTimers)
        /\ (keptOpen[r] /\ ~ackSeen[r] /\ HandshakeOver(r)) => fullSyncSends[r] = 4

C4_Witness ==
    /\ IsHost /\ round > 0
    /\ keptOpen[round] /\ ~ackSeen[round] /\ ~HandshakePending
    /\ fullSyncSends[round] = 4
    /\ simTicks > 0

\* the host has sent all four copies of the round's payload and has seen no
\* syncAck
BudgetExhausted ==
    /\ IsHost /\ round > 0
    /\ ~HandshakePending
    /\ ~ackSeen[round]
    /\ fullSyncSends[round] = 1 + Len(RetryDelays)

\* C5: once the retry budget is exhausted without a syncAck the host's
\* session is marked disconnected, and the host does not advance the
\* simulation of the unconfirmed round.
C5_ExhaustionEscalates ==
    /\ [](BudgetExhausted => mp.disconnected)
    /\ [][BudgetExhausted => simTicks' <= simTicks]_vars

\* C6 (step part): a round that has seen a syncAck gets no further
\* sendFullSync call; the only copy of the payload that can still reach the
\* channel is the 200 ms re-attempt of a send made before the acknowledgement.
C6_Step ==
    /\ \A r \in Started : ackSeen[r] => fullSyncSends'[r] = fullSyncSends[r]
    /\ (round > 0 /\ ackSeen[round] /\ round' = round) =>
          \A e \in OutOf(lastStep') :
              e.msg = WorldSync => e.fate \in {"resent", "lost"}

AppliedWorld(step) == step.handled = WorldSync

\* the syncAck calls of a step
AckCalls(step) == {e \in OutOf(step) : e.msg.type = "syncAck"}

\* C7 (state part): the step that applies a world payload makes exactly one
\* sendReliable call, the syncAck, on the screen the payload set; no other
\* step makes a syncAck call.
C7_AckOnApply ==
    IF AppliedWorld(lastStep)
    THEN /\ Len(lastStep.out) = 1
         /\ lastStep.out[1].msg = Msg("syncAck")
         /\ lastStep.out[1].fate \in {"sent", "thrown"}
         /\ screen = "playing"
    ELSE \A e \in AckCalls(lastStep) : e.fate \in {"resent", "lost"}

\* C7 (step part): a fullSync whose application throws leaves the guest's
\* state as it was and makes no call.
C7_Step ==
    lastStep'.handled = Malformed("fullSync") =>
        /\ screen' = screen
        /\ mp' = mp
        /\ lastStep'.out = <<>>

\* C7: the guest sends one syncAck per world payload it applied, in the step
\* that applied it and in no other; a payload whose application throws is
\* not acknowledged and changes nothing.
C7_AckAfterApply == []C7_AckOnApply /\ [][C7_Step]_vars

C7_Witness ==
    /\ IsGuest
    /\ AppliedWorld(lastStep)
    /\ lastStep.out = <<[msg |-> Msg("syncAck"), fate |-> "sent"]>>
    /\ screen = "playing"

\* the guest's snapshot pair
Pair(m) == <<m.prevSnapshot, m.currSnapshot>>

\* C8: the guest holds one (prevSnapshot, currSnapshot) pair; a decodable
\* snapshot becomes currSnapshot and the old currSnapshot becomes
\* prevSnapshot; a snapshot that fails to decode, and any other step of the
\* session, leaves the pair as it is.
C8_Step ==
    IF lastStep'.handled.type = "snapshot" /\ lastStep'.handled.ok /\ IsGuest
    THEN Pair(mp') = <<mp.currSnapshot, lastStep'.handled.snap>>
    ELSE mp'.on => Pair(mp') = Pair(mp)

C8_SnapshotPair == [][C8_Step]_vars

C8_Witness ==
    /\ IsGuest
    /\ lastStep.handled = SnapshotMsg(3)
    /\ Pair(mp) = <<2, 3>>

\* the session of this peer is marked disconnected
Marked == mp.on /\ mp.disconnected

\* the step ended the session: network object destroyed, state reset
BackToMenu ==
    /\ screen' = "menu"
    /\ mp' = NoMp
    /\ ~networkRef'
    /\ connState' = "idle"

\* C10 (a): the step that makes the ConnectionState 'disconnected' marks the
\* session.
C10_Marks ==
    (mp.on /\ connState # "disconnected" /\ connState' = "disconnected")
        => mp'.disconnected

\* C10 (b): a marked peer does not advance the simulation and sends no
\* snapshot and no keys.
C10_Silent ==
    Marked =>
        /\ simTicks' = simTicks
        /\ \A e \in OutOf(lastStep') : e.msg.type \notin {"snapshot", "keys"}

\* C10 (c): the mark is cleared only by the return to the menu.
C10_Sticky == (Marked /\ ~mp'.disconnected) => BackToMenu

\* C10 (d): the only user action a marked peer accepts is the return to the
\* menu.
C10_OnlyMenu == (Marked /\ lastStep'.input # "none") => BackToMenu

\* C10: a peer whose ConnectionState became 'disconnected' is marked at once,
\* stays marked, neither simulates nor sends snapshots or keys, and accepts no
\* user action but the return to the menu.
C10_DisconnectIsTerminal ==
    [][C10_Marks /\ C10_Silent /\ C10_Sticky /\ C10_OnlyMenu]_vars

\* the kinds of message with which the host moves the guest to another phase
PhaseMessages == {"briefing", "fullSync", "start", "upgrade"}

\* C11: while the guest is in the session, every change of its screen happens
\* in a step that handles a phase-transition message of the host; no local
\* input and no local timer changes it.
C11_GuestReactive ==
    [][(IsGuest /\ mp'.on /\ screen' # screen)
          => lastStep'.handled.type \in PhaseMessages]_vars

(***************************************************************************)
(* Claims about the phases of the two peers                                *)
(***************************************************************************)

\* no message is in flight in either direction
Quiescent == wire.toGuest = <<>> /\ wire.toHost = <<>>

\* C12: whenever both peers are connected and no message is in flight, the
\* guest's screen equals the host's screen.
C12_LockStep == Quiescent => guest.screen = screen

\* the host leaves the screen that shows the round's outcome
RoundOver == screen \in {"saved", "failed"} /\ screen' # screen

\* the message the step added to those in flight to the guest
Sent == wire'.toGuest[Len(wire'.toGuest)]

\* C13 (step): the host leaves 'saved' for 'upgrade' with the next mission, or
\* for the lobby with mission 0 after the last mission, and 'failed' for
\* 'briefing' with the same mission; the step sends the guest exactly one
\* message, 'upgrade', the victory 'fullSync' or 'briefing', and the guest's
\* handler of that message sets the host's new screen and mission.
C13_Step ==
    RoundOver =>
        /\ IF screen = "failed"
           THEN screen' = "briefing" /\ missionIndex' = missionIndex /\ Sent.type = "briefing"
           ELSE IF missionIndex + 1 >= NumMissions
           THEN /\ screen' = "lobby" /\ missionIndex' = 0
                /\ Sent.type = "fullSync" /\ Sent.kind = "victory"
           ELSE /\ screen' = "upgrade" /\ missionIndex' = missionIndex + 1
                /\ Sent.type = "upgrade"
        /\ wire'.toGuest = Append(wire.toGuest, Sent)
        /\ wire'.toHost = wire.toHost
        /\ GuestAfter(guest, Sent).screen = screen'
        /\ GuestAfter(guest, Sent).missionIndex = missionIndex'

SignalingLost == lastEvent' \in {"ignored", "reconnect"}

\* C14: a signaling disconnect that finds the DataConnection open is ignored:
\* the state, 'connected' included, the heartbeat and the peer stay as they
\* are and no reconnect is attempted; one that finds it not open makes the
\* host attempt a signaling reconnect.
C14_Step ==
    SignalingLost =>
        /\ lastEvent' = "ignored" <=> DataConnOpen
        /\ UNCHANGED <<state, pingInterval, tillPing, sincePong, peer, dataConn, conns>>

C14_SignalingDisconnect == [][C14_Step]_vars

C14_Witness ==
    /\ lastEvent = "ignored"
    /\ role = "host" /\ state = "connected" /\ pingInterval /\ DataConnOpen

\* C15: a room-code collision is retried transparently.  The step that
\* handles 'unavailable-id' leaves the state 'offering' and lastError unset,
\* replaces the peer and the code, keeps the caller's promise pending and
\* leaves one rendezvous timeout pending, with its full delay ahead: the
\* deadline of the failed attempt no longer applies.  Whenever the host's
\* promise is resolved, its value is the code of the attempt that registered.
C15_Step ==
    /\ lastEvent' = "collision" =>
          /\ state = "offering" /\ state' = "offering"
          /\ lastError' = "none"
          /\ roomCode' # roomCode /\ peer' = "created"
          /\ promise'.status = "pending"
          /\ connectTimer' /\ tillConnect' = ConnectTimeout
    /\ (role' = "host" /\ promise'.status = "resolved") =>
          /\ promise'.code = roomCode'
          /\ roomCode' = roomCode

C15_CollisionRetry == [][C15_Step]_vars

C15_Witness ==
    /\ role = "host" /\ roomCode = MaxCollisions + 1 /\ peer = "open"
    /\ promise = Resolved(roomCode)
    /\ state = "offering" /\ lastError = "none"

\* joinRoom was rejected with an error of the transport rather than with the
\* answer that the room does not exist
TransportFault == promise.error \in {"connError", "peerError"}

Joining == role = "guest" /\ state \in {"answering", "connecting"}

Discards == ~lastStep'.handled.ok

\* C17: a malformed datum is discarded.  The step that receives it changes
\* neither the connection state nor the channel nor any part of the session
\* (screen, multiplayer state, mission, round, timers, acknowledgements) and
\* sends nothing; since it leaves the peer in the state it found, every later
\* message is handled as if the datum had never arrived.
C17_Step ==
    Discards =>
        /\ UNCHANGED <<screen, mp, missionIndex, round, networkRef, connState, link>>
        /\ UNCHANGED <<netRetry, startTimer, retryTimers, syncAcked, onMessage, simTicks>>
        /\ lastStep'.out = <<>>

C17_MalformedDiscarded == [][C17_Step]_vars

C17_Witness ==
    /\ lastStep.handled = Malformed("briefing")
    /\ IsGuest /\ screen = "playing" /\ link = "open" /\ connState = "connected"
    /\ mp.currSnapshot # 0 /\ ~mp.disconnected

\* C18: once destroy() has run, no timer left pending changes the object: the
\* state stays 'idle' (so onStateChange, which setState calls on every change,
\* is not invoked again).
C18_TeardownQuiet == destroyed => state = "idle"

\* the step called sendReliable directly and dataConn.send threw
SendThrew == lastSend' # lastSend /\ ~lastSend'.retry /\ lastSend'.threw

\* the step ran a 200 ms retry timer
Retried == lastSend' # lastSend /\ lastSend'.retry

\* C19: a send of a critical kind that throws schedules one retry of that
\* message and nothing else does; the retry runs once and, whether or not it
\* throws again, schedules nothing further; a throwing send of 'snapshot',
\* 'keys', 'ping' or 'pong' schedules no retry.
C19_Step ==
    /\ SendThrew =>
          sendRetry' = IF IsCritical(lastSend'.type)
                       THEN sendRetry \cup {lastSend'.type}
                       ELSE sendRetry
    /\ Retried => sendRetry' = sendRetry \ {lastSend'.type}
    /\ ~SendThrew => sendRetry' \subseteq sendRetry
    /\ \A type \in sendRetry' : type \notin {"snapshot", "keys", "ping", "pong"}

C19_RetryOnce == [][C19_Step]_vars

C19_Witness ==
    /\ lastSend.retry /\ lastSend.threw /\ lastSend.type = "fullSync"
    /\ sendRetry = {} /\ state = "connected"

(* Claims about the snapshot codec *)
Near(a, b) == a - b <= 10 /\ b - a <= 10

SameEntity(e, f) == Near(e.x, f.x) /\ e.health = f.health

SameOptional(s, r) == Len(s) = Len(r) /\ (s # <<>> => SameEntity(s[1], r[1]))

\* C20: a snapshot that went through serializeSnapshot and deserializeSnapshot
\* is within 0.1 of the original on every numeric field, ts included, and
\* equal to it on every discrete field.
C20_RoundTrip ==
    decoded # <<>> =>
        LET S == snapshot
            R == decoded[1]
        IN  /\ Near(R.ts, S.ts) /\ Near(R.timeLeft, S.timeLeft)
            /\ SameEntity(R.amb1, S.amb1) /\ SameOptional(R.amb2, S.amb2)
            /\ Len(R.patients) = Len(S.patients)
            /\ \A i \in DOMAIN S.patients :
                  /\ Near(R.patients[i].x, S.patients[i].x)
                  /\ R.patients[i].caught = S.patients[i].caught
                  /\ R.patients[i].storyIdx = S.patients[i].storyIdx
            /\ R.powerUps = S.powerUps
            /\ R.seq = S.seq /\ R.scores = S.scores /\ R.screen = S.screen
            /\ R.derbyRound = S.derbyRound
            /\ Len(R.activeEvent) = Len(S.activeEvent)
            /\ S.activeEvent # <<>> =>
                  /\ R.activeEvent[1].type = S.activeEvent[1].type
                  /\ Near(R.activeEvent[1].timer, S.activeEvent[1].timer)
            /\ R.nearMissCombo = S.nearMissCombo /\ R.isDrifting = S.isDrifting

(***************************************************************************)
(* Claims about the snapshot interpolation                                 *)
(***************************************************************************)

\* v is where a position that moves from a to b stands at interpT
Between(a, b, v) ==
    /\ interpT <= 0 => v = a
    /\ interpT >= 2 => v = b
    /\ interpT = 1 => 2 * v = a + b

\* C21: every position field of the result of interpolateSnapshots(A, B, t) is
\* exactly A's value at t = 0, exactly B's value at t = 1 and the arithmetic
\* midpoint at t = 0.5, and a t outside [0,1] gives the result of the nearest bound.
C21_PositionsInterpolated ==
    interpolated # <<>> =>
        LET r == interpolated[1]
        IN  /\ Between(prev.amb1.x, curr.amb1.x, r.amb1.x)
            /\ (prev.amb2 # <<>> /\ curr.amb2 # <<>>) =>
                   Between(prev.amb2[1].x, curr.amb2[1].x, r.amb2[1].x)
            /\ \A i \in DOMAIN prev.patients \cap DOMAIN curr.patients :
                   Between(prev.patients[i].x, curr.patients[i].x, r.patients[i].x)

\* C22: lerpAngle takes the short way: from 350 degrees to 10 degrees at
\* t = 0.5 it yields 0 degrees modulo a full turn, and the interpolated angle is
\* never more than half a turn away from the start angle.
C22_ShortWay ==
    interpolated # <<>> =>
        LET r == interpolated[1]
            away == r.amb1.angle - prev.amb1.angle
        IN  /\ (prev.amb1.angle = 350 /\ curr.amb1.angle = 10 /\ interpT = 1) =>
                   r.amb1.angle % 360 = 0
            /\ away <= 180 /\ away >= -180

C22_Witness ==
    /\ interpolated # <<>>
    /\ prev.amb1.angle = 350 /\ curr.amb1.angle = 10 /\ interpT = 1
    /\ interpolated[1].amb1.angle = 360

\* C23: the result of interpolateSnapshots carries curr's value unchanged for
\* the caught flags, the health values, the scores, the screen and the
\* host-decremented timers timeLeft, nitroTimer and comboTimer.
C23_DiscreteFromCurr ==
    interpolated # <<>> =>
        LET r == interpolated[1]
        IN  /\ r.amb1.health = curr.amb1.health
            /\ r.amb1.nitroTimer = curr.amb1.nitroTimer
            /\ DOMAIN r.patients = DOMAIN curr.patients
            /\ \A i \in DOMAIN curr.patients : r.patients[i].caught = curr.patients[i].caught
            /\ r.scores = curr.scores
            /\ r.screen = curr.screen
            /\ r.comboTimer = curr.comboTimer
            /\ r.timeLeft = curr.timeLeft

(***************************************************************************)
(* Claims about the room codes                                             *)
(***************************************************************************)

\* the characters of a string
Chars(s) == {s[i] : i \in DOMAIN s}

\* C24: every code generateRoomCode produces has exactly 6 characters, each from
\* the alphabet of 32 characters without 0, O, 1 and I, and joinRoom resolves any
\* casing and surrounding whitespace of the host's code to the identifier the
\* host registered.
C24_RoomCodes ==
    /\ generated # <<>> =>
           /\ Len(generated[1]) = 6
           /\ Chars(generated[1]) \subseteq Chars(RoomChars)
           /\ Cardinality(Chars(RoomChars)) = 32
           /\ Chars(RoomChars) \cap {"0", "O", "1", "I"} = {}
    /\ guestPeerId # <<>> => guestPeerId = hostPeerId

C24_Witness ==
    /\ guestPeerId # <<>>
    /\ Head(typed[1]) \in Whitespace
    /\ typed[1][Len(typed[1])] \in Whitespace
    /\ Chars(typed[1]) \cap Chars(LowerLetters) # {}
    /\ Chars(typed[1]) \cap {"2", "9"} # {}
    /\ guestPeerId = hostPeerId

(***************************************************************************)
(* Claims about the sequence numbers                                       *)
(***************************************************************************)

\* C25: each message a peer sends carries a sequence number strictly greater
\* than that of every message it sent earlier on the channel.
C25_SeqIncreasing ==
    \A i, j \in DOMAIN sent : i < j => sent[i].seq < sent[j].seq

(***************************************************************************)
(* Claims about the start of a round                                       *)
(***************************************************************************)

\* the guest's callback takes the oldest message in flight, of kind `type`
GuestTakes(type) ==
    /\ wire.toGuest # <<>>
    /\ Head(wire.toGuest).type = type
    /\ guest' = GuestAfter(guest, Head(wire.toGuest))
    /\ Len(wire'.toGuest) = Len(wire.toGuest) - 1

\* C26 (step): when the guest processes the 'start' of a round, it has applied
\* the FullSyncPayload of that round
C26_Step ==
    GuestTakes("start") => guest.world = Head(wire.toGuest).round

\* C26: in every round the guest enters 'playing' only after it has applied
\* the round's FullSyncPayload: the 'start' of the round is never processed
\* before the fullSync, also when the first send of the fullSync fails and is
\* retried.
C26_StartAfterSync == [][C26_Step]_vars

(***************************************************************************)
(* Claims about the connected state and the heartbeat                      *)
(***************************************************************************)

\* the step is a run of the heartbeat callback that stops the heartbeat: the
\* reply is overdue or the channel is no longer open
HeartbeatGaveUp == pingInterval /\ tillPing = 0 /\ ~pingInterval' /\ ~destroyed'

\* the step is the close event of a DataConnection
CloseEvent ==
    /\ \E c \in ConnIds : conns[c] \in {"pending", "open"} /\ conns'[c] = "closed"
    /\ destroyed' = destroyed

\* the step is destroy()
Destroyed == ~destroyed /\ destroyed'

\* C27 (step): a step that leaves 'connected' is the heartbeat giving up, a
\* close event or destroy()
C27_Step ==
    (state = "connected" /\ state' # "connected") =>
        HeartbeatGaveUp \/ CloseEvent \/ Destroyed

\* C27: once the state is 'connected' it leaves 'connected' only through the
\* heartbeat timeout, the heartbeat's channel-not-open check, the data channel's
\* close event or destroy(); a data-channel error, a peer error and an incoming
\* connection never move a connected peer out of 'connected'.
C27_ConnectedSticks == [][C27_Step]_vars

\* C28: a GameNetwork has a heartbeat interval running only while its state is
\* 'connected': every transition to 'disconnected' or 'idle' stops it, so no
\* ping is sent in those states.
C28_HeartbeatOnlyConnected == pingInterval => state = "connected"

(***************************************************************************)
(* Claims about abandoned sessions                                         *)
(***************************************************************************)

\* C29 (step): a state change of a GameNetwork that was destroyed leaves the
\* multiplayer session of the application as it is
C29_Step == (destroyed /\ state' # state) => mp' = mp

\* C29: callbacks and timers of a destroyed GameNetwork never modify the state
\* of a later multiplayer session: a rendezvous timeout of the old network that
\* fires after the user started a new session does not set the new session's
\* disconnected flag.
C29_SessionIsolation == [][C29_Step]_vars

(***************************************************************************)
(* Claims about the heartbeat's replies                                    *)
(***************************************************************************)

\* C30 (step): the sendReliable call that answers a 'ping' hands the 'pong' to
\* the channel
C30_Step ==
    (lastSend' # lastSend /\ lastSend'.type = "pong") => lastSend'.handed

\* C30: every 'ping' a peer receives is answered at once with one 'pong', every
\* 'pong' received updates the time of the last reply, and neither is delivered
\* to the application's onMessage handler.
C30_PingAnswered == [][C30_Step]_vars

(***************************************************************************)
(* Claims about the message handler of the App                             *)
(***************************************************************************)

\* the message types a peer of this role never sends to itself: the guest's
\* 'keys' and 'upgradeChoice' at a guest, the host's six at a host
Misdirected(netRole, type) ==
    \/ netRole = "guest" /\ type \in {"keys", "upgradeChoice"}
    \/ netRole = "host"
          /\ type \in {"snapshot", "fullSync", "start", "briefing", "upgrade", "modeSelect"}

\* C31: a message of the wrong direction ('keys' or 'upgradeChoice' at a guest;
\* 'snapshot', 'fullSync', 'start', 'briefing', 'upgrade' or 'modeSelect' at a
\* host) leaves the receiver's session state unchanged and causes no reply.
C31_DirectionEnforced ==
    [][Misdirected(stateRef.mp.netRole, received'.type)
          => stateRef' = stateRef /\ sentNow' = <<>>]_vars

\* a host on the upgrade screen, one flag set, has just handled a FullSyncPayload
C31_Witness ==
    /\ stateRef # <<>>
    /\ stateRef.mp.netRole = "host" /\ stateRef.screen = "upgrade"
    /\ stateRef.mp.guestReady
    /\ received.type = "fullSync" /\ received.payload = "world"

\* C32: once the guest has applied a round's FullSyncPayload, no frame draws
\* the world from a snapshot of an earlier round: the round the drawn world
\* belongs to never goes back.
C32_NoStaleSnapshot ==
    [][stateRef.mp.netRole = "guest"
          => stateRef'.ambulance.round >= stateRef.ambulance.round]_vars

\* C33: lerpAngle scales by t a difference that is b - a brought into the
\* half-open interval (-PI, PI] by whole turns; a difference of exactly -PI
\* counts as +PI.
C33_HalfOpen ==
    interpolated # <<>> =>
        LET a == prev.amb1.angle
            b == curr.amb1.angle
            r == interpolated[1].amb1.angle
        IN  \E diff \in -179..180 :
               /\ (diff - (b - a)) % 360 = 0
               /\ 2 * (r - a) = diff * Clamped(interpT)

(***************************************************************************)
(* Claims about the upgrade screen                                         *)
(***************************************************************************)

\* how many messages of a type are in flight in q
CountOf(q, type) == Cardinality({i \in DOMAIN q : q[i].type = type})

\* this step is the host's handler taking the guest's 'ready'
ReadyArrives ==
    /\ wire.toHost # <<>>
    /\ Head(wire.toHost).type = "ready"
    /\ wire'.toHost = Tail(wire.toHost)

\* this step is the host's ready button: it sends the host's 'ready'
HostClicksReady == CountOf(wire'.toGuest, "ready") > CountOf(wire.toGuest, "ready")

\* this step completes the pair of flags on the host's upgrade screen
SecondReady ==
    /\ screen = "upgrade"
    /\ \/ ReadyArrives /\ hostMp.hostReady
       \/ HostClicksReady /\ hostMp.guestReady

\* the host leaves 'upgrade' for 'briefing' in this step
LeavesUpgrade == screen = "upgrade" /\ screen' = "briefing"

C34_Step ==
    /\ LeavesUpgrade =>
          /\ SecondReady
          /\ CountOf(wire'.toGuest, "briefing") = CountOf(wire.toGuest, "briefing") + 1
    /\ SecondReady => LeavesUpgrade
    /\ (screen' # screen /\ screen' \in {"upgrade", "briefing"}) => hostMp' = NoReady
    /\ (guest'.screen # guest.screen /\ guest'.screen \in {"upgrade", "briefing"})
          => guest'.mp = NoReady
    /\ (ReadyArrives /\ screen # "upgrade") => screen' = screen

\* C34: the host leaves 'upgrade' for 'briefing', sending one 'briefing', exactly
\* in the step in which the second of hostReady and guestReady is set; every
\* entry to 'upgrade' or 'briefing' leaves both flags false; a 'ready' handled
\* on another screen of the host does not change the screen.
C34_ReadyGate == [][C34_Step]_vars

\* the host is back on the briefing of the second mission because the guest's
\* 'ready' came after the host's
C34_Witness ==
    /\ screen = "briefing" /\ missionIndex = 1 /\ hostMp = NoReady
    /\ guest.mp.guestReady /\ guest.screen = "upgrade"
    /\ wire.toHost = <<>>
    /\ CountOf(wire.toGuest, "briefing") = 1 /\ CountOf(wire.toGuest, "ready") = 1

\* the host's books of the guest
GuestMoney == stateRef.mp.guestMoney

GuestUpgrades == stateRef.mp.guestUpgrades

\* the choice of an upgrade at level 0, 1 or 2 that the guest can pay
Payable(key) ==
    /\ key \in UpgradeKeys
    /\ GuestUpgrades[key] < 3
    /\ GuestMoney >= (GuestUpgrades[key] + 1) * 100

\* the step of an accepted choice of key
AcceptedStep(key) ==
    /\ stateRef'.mp.guestUpgrades[key] = GuestUpgrades[key] + 1
    /\ \A k \in UpgradeKeys \ {key} : stateRef'.mp.guestUpgrades[k] = GuestUpgrades[k]
    /\ stateRef'.mp.guestMoney = GuestMoney - (GuestUpgrades[key] + 1) * 100
    /\ stateRef' = [stateRef EXCEPT !.mp.guestUpgrades = stateRef'.mp.guestUpgrades,
                                    !.mp.guestMoney = stateRef'.mp.guestMoney]
    /\ Len(sentNow') = 1
    /\ sentNow'[1].type = "upgrade"
    /\ sentNow'[1].guestMoney = stateRef'.mp.guestMoney
    /\ sentNow'[1].guestUpgrades = stateRef'.mp.guestUpgrades

C35_Step ==
    /\ stateRef'.mp.guestMoney >= 0
    /\ \A k \in UpgradeKeys : stateRef'.mp.guestUpgrades[k] \in 0..3
    /\ received'.type = "upgradeChoice" =>
          IF Payable(received'.key) THEN AcceptedStep(received'.key)
          ELSE stateRef' = stateRef /\ sentNow' = <<>>

\* C35: on the host guestMoney is never negative and no guest upgrade is above
\* level 3; an accepted upgradeChoice raises that level by one, takes
\* (level + 1) * 100 and sends one 'upgrade'; a rejected one changes nothing and
\* sends nothing.
C35_GuestAccounts == [][C35_Step]_vars

\* the guest, at level 3 with 400 in hand, asked for a fourth level
C35_Witness ==
    /\ stateRef # <<>>
    /\ GuestUpgrades[UpgradeNames[1]] = 3 /\ GuestMoney = 400
    /\ received = ChoiceMsg(UpgradeNames[1])
    /\ sentNow = <<>>

(***************************************************************************)
(* Claims about the key bitmask                                            *)
(***************************************************************************)

\* this step sent the guest's keys
KeysSent == sentNow' # <<>> /\ sentNow'[1].type = "keys"

\* this step is the host's handler taking a 'keys' message
KeysTaken == stateRef.mp.netRole = "host" /\ received'.type = "keys"

C36_Step ==
    /\ KeysSent =>
          /\ sentNow'[1].byte \in 0..63
          /\ DeserializeKeys(sentNow'[1].byte) = stateRef.keys
    /\ (KeysTaken /\ received'.byte >= 0) =>
          /\ SerializeKeys(stateRef'.mp.remoteKeys) = received'.byte % 64
          /\ stateRef' = [stateRef EXCEPT !.mp.remoteKeys = stateRef'.mp.remoteKeys]
    /\ (KeysTaken /\ received'.byte < 0) => stateRef' = stateRef

\* C36: the byte the guest sends for its keys deserializes to those keys, for
\* all 64 combinations; the keys the host stores for a byte serialize to that
\* byte with the bits above the low six cleared, for all 256 bytes, so after a
\* 'keys' message the remote player's keys are the last bitmask received.
C36_KeyRoundTrip == [][C36_Step]_vars

\* the host has taken the byte 255 after another byte: all six keys are down
C36_Witness ==
    /\ stateRef # <<>>
    /\ stateRef.mp.netRole = "host"
    /\ received = KeysMsg(255)
    /\ SerializeKeys(stateRef.mp.remoteKeys) = 63

(***************************************************************************)
(* Claims about repeated full syncs                                        *)
(***************************************************************************)

\* this step is the guest taking a FullSyncPayload it has applied before
TakesCopy ==
    /\ GuestTakes("fullSync")
    /\ Head(wire.toGuest).kind = "world"
    /\ Head(wire.toGuest).round = guest.world

\* C37: a retried copy of a FullSyncPayload the guest has applied leaves the
\* guest's screen, mission and world as they are, whenever it arrives.
C37_DuplicateHarmless == [][TakesCopy => guest' = guest]_vars

(***************************************************************************)
(* Claims about the acknowledgement wrappers                               *)
(***************************************************************************)

\* this step is the host's net.onMessage taking the oldest message in flight
HostTakes ==
    /\ wire.toHost # <<>>
    /\ wire'.toHost = Tail(wire.toHost)

\* the retries of round r are over: a later round was started, or all three
\* timers of the current round ran or were cleared
BudgetSpent(r) == r < round \/ retryTimers = {}

\* C38 (a): after a syncAck net.onMessage is the handler of
\* setupNetworkCallbacks, however many wrappers were installed
C38_Restored ==
    (HostTakes /\ Head(wire.toHost).type = "syncAck") => onMessage' = <<>>

\* C38 (b): every message runs the handler of setupNetworkCallbacks once
C38_Once ==
    HostTakes =>
        RunHandler(onMessage, Head(wire.toHost).type = "syncAck", onMessage).baseCalls = 1

\* C38 (c): a syncAck for a round whose handshake is complete or whose retries
\* are over changes no timer, no other round's handshake and no screen, and
\* sends nothing
C38_LateIgnored ==
    LET m == Head(wire.toHost)
    IN  (HostTakes /\ m.type = "syncAck" /\ (syncAcked[m.round] \/ BudgetSpent(m.round)))
            => /\ retryTimers' = retryTimers
               /\ \A r \in Rounds \ {m.round} : syncAcked'[r] = syncAcked[r]
               /\ UNCHANGED <<screen, missionIndex, round, startTimer, hostMp, guest>>
               /\ wire'.toGuest = wire.toGuest

\* C38: a syncAck leaves net.onMessage as the handler of setupNetworkCallbacks,
\* also with several wrappers installed; every message reaches that handler
\* exactly once; and a syncAck that comes after its round's retries are over
\* or after its handshake completed has no effect.
C38_AckHandler == [][C38_Restored /\ C38_Once /\ C38_LateIgnored]_vars

(***************************************************************************)
(* Claims about a third peer                                               *)
(***************************************************************************)

\* this step is peer.on('connection'): a connection comes in
Incoming == \E c \in ConnIds : conns[c] = "unused" /\ conns'[c] = "pending"

\* this step is the open event of a connection that came in while another
\* connection was open, and that one still is
LaterOpens ==
    \E c \in ConnIds :
        /\ conns[c] = "pending" /\ conns'[c] = "open"
        /\ \E d \in ConnIds : d < c /\ conns[d] = "open"

C39_Step ==
    /\ (role = "host" /\ state = "connected" /\ DataConnOpen /\ Incoming)
          => /\ state' = state
             /\ dataConn' = dataConn
             /\ UNCHANGED <<pingInterval, tillPing, sincePong>>
    /\ (role = "host" /\ LaterOpens) => UNCHANGED <<pingInterval, tillPing, sincePong>>

\* C39: while the host is connected to a guest, a connection coming in from
\* another peer changes neither the host's ConnectionState nor the data channel
\* it sends on, and does not restart the heartbeat.
C39_TwoParticipants == [][C39_Step]_vars

====
